---- MODULE Spec2Model ----
(***************************************************************************)
(* Model of the RabbitMQ client layer of tpf: ClientManager, SetupHelper,  *)
(* ConnectionManager, Client and Address (src/rabbitmq).                   *)
(*                                                                         *)
(* The broker and the pika channel are the environment: every request the  *)
(* code issues with a completion callback stays outstanding until the      *)
(* broker answers it, and outstanding requests of different address legs   *)
(* are answered in any order.                                              *)
(***************************************************************************)
EXTENDS Integers, Sequences, FiniteSets, TLC

VARIABLES
    clients,               \* ClientManager._clients, the list SetupHelper.clients aliases
    legs,                  \* per client, the handshake position of its two address legs
    connection,            \* ConnectionManager.__connection: state of the connection object
    channel,               \* ConnectionManager.__channel: state of the channel object
    sh_connection,         \* SetupHelper._connection
    sh_channel,            \* SetupHelper._channel
    consumer_tags,         \* SetupHelper._consumer_tags
    consumer_tags_closed,  \* SetupHelper._consumer_tags_closed
    loop,                  \* the asyncio event loop driven by ClientManager.start
    consumers,             \* consumer tags the channel knows (pika Channel._consumers)
    cancelling,            \* consumer tags with a basic_cancel outstanding
    cancel_order,          \* consumer tags in the order their cancel-ok arrived
    close_log,             \* every call of the close sequence, in order
    stop_log,              \* every ClientManager.stop call: whether setup was complete
    raised,                \* exceptions raised by setup and teardown so far, in order
    default_on_message_error, \* DefaultParameters.ON_MESSAGE_ERROR
    last_publish,          \* the most recent Client.publish call and what it did
    delivered,             \* number of messages the broker has delivered
    tasks,                 \* task_wrapper coroutines created and not yet finished
    events,                \* acknowledgments, dispatches and handler calls, in order
    routed,                \* published payloads the broker routed to a consumer, by delivery
    address,               \* an Address as the application constructed it
    checked,               \* what SetupHelper._setup_address made of that address
    connection_objects,    \* every AsyncioConnection created through ConnectionManager
    channel_objects,       \* every channel opened through ConnectionManager
    current_connection,    \* the object ConnectionManager.__connection refers to (0: None)
    current_channel,       \* the object ConnectionManager.__channel refers to (0: None)
    manager_log,           \* ConnectionManager calls and the callbacks they led to, in order
    settings,              \* app_settings.ini as AppSettings read it, and one getter call
    got,                   \* what that getter call returned or raised
    channel_prefetch,      \* the prefetch count of the last basic_qos sent on the channel (0: none)
    consumer_prefetch,     \* per consumer tag, the channel's prefetch count when its basic_consume was sent
    app_runs,              \* every AppManager.start call: the hooks it executed and what it raised
    shutdown,              \* AppManager.shutdown, a threading.Event: whether it is set
    subscriptions,         \* RedisManager._subscriptions: channel -> its pubsub
    pubsubs,               \* every PubSub created by RedisManager, with its worker thread
    redis_log,             \* RedisManager calls and what they returned, in order
    max_length,            \* TimeSeries.max_length (0: None)
    points,                \* TimeSeries._points
    last_op                \* the most recent TimeSeries call, the points before it and its result

vars == <<clients, legs, connection, channel, sh_connection, sh_channel,
          consumer_tags, consumer_tags_closed, loop, consumers, cancelling,
          cancel_order, close_log, stop_log, raised,
          default_on_message_error, last_publish, delivered, tasks, events, routed,
          address, checked, connection_objects, channel_objects,
          current_connection, current_channel, manager_log, settings, got,
          channel_prefetch, consumer_prefetch, app_runs, shutdown,
          subscriptions, pubsubs, redis_log, max_length, points, last_op>>

coreVars == <<clients, legs, connection, channel, sh_connection, sh_channel,
              consumer_tags, consumer_tags_closed, loop, consumers, cancelling,
              cancel_order, close_log, stop_log, raised>>

messageVars == <<default_on_message_error, last_publish, delivered, tasks, events,
                 routed>>

addressVars == <<address, checked>>

connectionVars == <<connection_objects, channel_objects, current_connection,
                    current_channel, manager_log>>

settingsVars == <<settings, got>>

brokerVars == <<channel_prefetch, consumer_prefetch>>

appVars == <<app_runs, shutdown>>

redisVars == <<subscriptions, pubsubs, redis_log>>

seriesVars == <<max_length, points, last_op>>

----------------------------------------------------------------------------
(* Bounds of the model *)

MaxClients == 2

MaxStops == 2

\* clients registered, and stop calls, when messages are published and delivered
MaxMessageClients == 1

MaxMessageStops == 1

MaxDeliveries == 1

\* messages delivered to the consumers of a setup that is complete
MaxSteadyDeliveries == 2

\* calls of ConnectionManager's class methods by an application
MaxManagerCalls == 3

\* calls of AppManager.start
MaxStarts == 2

\* calls of RedisManager's methods
MaxRedisCalls == 3

\* the largest max_length of a TimeSeries
MaxLength == 2

\* points in a TimeSeries without max_length
MaxPoints == 3

----------------------------------------------------------------------------
(* src/rabbitmq/types.py *)

None == "<None>"

DEFAULT_EXCHANGE == ""

DEFAULT_EXCHANGE_TYPE == "direct"

\* Python None in an address slot of a Client
NoAddress == [none |-> TRUE]

Address(queue, routing_key, exchange, exchange_type) ==
    [queue |-> queue, routing_key |-> routing_key,
     exchange |-> exchange, exchange_type |-> exchange_type]

\* Address.check_attributes: raises when queue is None, fills routing_key
check_attributes(a) ==
    IF a.queue = None
    THEN [raised |-> TRUE, address |-> a]
    ELSE [raised |-> FALSE,
          address |-> IF a.routing_key = None
                      THEN [a EXCEPT !.routing_key = a.queue]
                      ELSE a]

is_default_exchange(a) == a.exchange = ""

----------------------------------------------------------------------------
(* The clients an application registers *)

Client(subscriber_address, publisher_address, prefetch_count, on_message, on_message_error, parse_json) ==
    [subscriber_address |-> subscriber_address,
     publisher_address |-> publisher_address,
     prefetch_count |-> prefetch_count,
     on_message |-> on_message,
     on_message_error |-> on_message_error,
     parse_json |-> parse_json,
     channel |-> None]

\* subscriber on the default exchange, publisher on exchange ex1
BothLegsClient ==
    Client(Address("q1", None, DEFAULT_EXCHANGE, DEFAULT_EXCHANGE_TYPE),
           Address("q1", None, "ex1", "direct"), 1,
           "on_message", "on_message_error", TRUE)

PublisherOnlyClient ==
    Client(NoAddress, Address("q3", None, DEFAULT_EXCHANGE, DEFAULT_EXCHANGE_TYPE), 1,
           None, None, TRUE)

SubscriberOnlyClient ==
    Client(Address("q2", "rk2", "ex2", "topic"), NoAddress, 2,
           "on_message", None, TRUE)

\* a subscriber address whose queue was never set
MissingQueueClient ==
    Client(Address(None, None, "ex1", "direct"), NoAddress, 1,
           None, None, TRUE)

\* a subscriber without on_message; it has an error handler of its own
HandlerlessClient ==
    Client(Address("q4", None, DEFAULT_EXCHANGE, DEFAULT_EXCHANGE_TYPE), NoAddress, 2,
           None, "on_message_error", TRUE)

ClientChoices ==
    {BothLegsClient, PublisherOnlyClient, SubscriberOnlyClient, MissingQueueClient,
     HandlerlessClient}

----------------------------------------------------------------------------
(* Requests the code issues on the channel *)

ExchangeDeclare(a) ==
    [op |-> "exchange_declare", exchange |-> a.exchange, exchange_type |-> a.exchange_type]

QueueDeclare(a) == [op |-> "queue_declare", queue |-> a.queue]

QueueBind(a) ==
    [op |-> "queue_bind", queue |-> a.queue, exchange |-> a.exchange,
     routing_key |-> a.routing_key]

BasicQos(c) == [op |-> "basic_qos", prefetch_count |-> c.prefetch_count]

BasicConsume(a) == [op |-> "basic_consume", queue |-> a.queue]

\* A leg is one call chain of SetupHelper._setup_address: pc names the request
\* whose completion callback is outstanding.
IdleLeg == [pc |-> "idle", issued |-> <<>>, confirmed |-> 0]

Issue(leg, request) ==
    [leg EXCEPT !.pc = request.op, !.issued = Append(leg.issued, request)]

\* the broker confirmed the outstanding request of the leg
Confirm(leg) == [leg EXCEPT !.confirmed = leg.confirmed + 1]

Finish(leg, pc) == [leg EXCEPT !.pc = pc]

LegNames == {"publisher", "subscriber"}

AddressOf(c, name) ==
    IF name = "subscriber" THEN c.subscriber_address ELSE c.publisher_address

----------------------------------------------------------------------------
(* src/rabbitmq/setup_helper.py: the handshake of one address *)

\* SetupHelper._setup_message_callback: basic_consume returns at once
setup_message_callback(leg, a) ==
    Finish(Issue(leg, BasicConsume(a)), "done")

\* _setup_qos going on to basic_consume without basic_qos
setup_qos_consumes_at_once(leg, c) ==
    Finish(Issue(leg, BasicConsume(c.subscriber_address)), "done")

\* SetupHelper._setup_qos
setup_qos(leg, c) == Issue(leg, BasicQos(c))

\* the callback of _setup_routing_key without its test of is_subscriber
routing_key_callback_for_every_leg(leg, c, is_subscriber) == setup_qos(leg, c)

\* the callback of SetupHelper._setup_routing_key
routing_key_callback(leg, c, is_subscriber) ==
    IF ~is_subscriber THEN Finish(leg, "done") ELSE setup_qos(leg, c)

\* _setup_routing_key without its call of queue_bind
setup_routing_key_never_binds(leg, c, a, is_subscriber) ==
    routing_key_callback(leg, c, is_subscriber)

\* SetupHelper._setup_routing_key
setup_routing_key(leg, c, a, is_subscriber) ==
    IF is_default_exchange(a)
    THEN routing_key_callback(leg, c, is_subscriber)
    ELSE Issue(leg, QueueBind(a))

\* _setup_queue issuing queue_bind without waiting for queue_declare-ok
setup_queue_without_waiting(leg, a) ==
    Issue(Issue(leg, QueueDeclare(a)), QueueBind(a))

\* SetupHelper._setup_queue
setup_queue(leg, a) == Issue(leg, QueueDeclare(a))

\* _setup_exchange without the test of is_default_exchange
setup_exchange_always_declares(leg, a) == Issue(leg, ExchangeDeclare(a))

\* _setup_exchange calling _setup_queue at once instead of from the callback
setup_exchange_without_waiting(leg, a) ==
    IF is_default_exchange(a)
    THEN setup_queue(leg, a)
    ELSE setup_queue(Issue(leg, ExchangeDeclare(a)), a)

\* SetupHelper._setup_exchange
setup_exchange(leg, a) ==
    IF is_default_exchange(a)
    THEN setup_queue(leg, a)
    ELSE Issue(leg, ExchangeDeclare(a))

\* _setup_address without its call of check_attributes
setup_address_without_check(a) ==
    IF a = NoAddress
    THEN [raised |-> FALSE, address |-> a, leg |-> Finish(IdleLeg, "none")]
    ELSE [raised |-> FALSE, address |-> a, leg |-> setup_exchange(IdleLeg, a)]

\* SetupHelper._setup_address: the address after check_attributes, the leg,
\* and whether check_attributes raised
setup_address(a) ==
    IF a = NoAddress
    THEN [raised |-> FALSE, address |-> a, leg |-> Finish(IdleLeg, "none")]
    ELSE LET chk == check_attributes(a)
         IN  IF chk.raised
             THEN [raised |-> TRUE, address |-> a, leg |-> Finish(IdleLeg, "raised")]
             ELSE [raised |-> FALSE, address |-> chk.address,
                   leg |-> setup_exchange(IdleLeg, chk.address)]

\* _setup_clients without its call of set_channel
setup_client_without_channel(c) ==
    LET pub == setup_address(c.publisher_address)
        sub == setup_address(c.subscriber_address)
    IN  IF pub.raised
        THEN [raised |-> TRUE,
              client |-> c,
              legs |-> [publisher |-> pub.leg, subscriber |-> IdleLeg]]
        ELSE [raised |-> sub.raised,
              client |-> [c EXCEPT !.publisher_address = pub.address,
                                   !.subscriber_address = sub.address],
              legs |-> [publisher |-> pub.leg, subscriber |-> sub.leg]]

\* _setup_clients handing the publisher address to both legs
setup_client_publisher_address_twice(c) ==
    LET withChannel == [c EXCEPT !.channel = "channel"]
        pub == setup_address(c.publisher_address)
    IN  [raised |-> pub.raised,
         client |-> [withChannel EXCEPT !.publisher_address = pub.address],
         legs |-> [publisher |-> pub.leg,
                   subscriber |-> IF pub.raised THEN IdleLeg ELSE pub.leg]]

\* One iteration of the loop of SetupHelper._setup_clients: set_channel, the
\* publisher leg, then the subscriber leg, unless the publisher leg raised.
setup_client(c) ==
    LET withChannel == [c EXCEPT !.channel = "channel"]
        pub == setup_address(c.publisher_address)
        sub == setup_address(c.subscriber_address)
    IN  IF pub.raised
        THEN [raised |-> TRUE,
              client |-> withChannel,
              legs |-> [publisher |-> pub.leg, subscriber |-> IdleLeg]]
        ELSE [raised |-> sub.raised,
              client |-> [withChannel EXCEPT !.publisher_address = pub.address,
                                             !.subscriber_address = sub.address],
              legs |-> [publisher |-> pub.leg, subscriber |-> sub.leg]]

\* _setup_clients leaving its loop after the first client
setup_clients_first_only(i, cs, ls) ==
    IF cs = <<>>
    THEN [raised |-> FALSE, clients |-> cs, legs |-> ls]
    ELSE LET r == setup_client(cs[1])
         IN  [raised |-> r.raised,
              clients |-> [cs EXCEPT ![1] = r.client],
              legs |-> [ls EXCEPT ![1] = r.legs]]

\* SetupHelper._setup_clients from client i on: the exception of
\* check_attributes leaves the loop, so later clients are never reached
RECURSIVE setup_clients(_, _, _)
setup_clients(i, cs, ls) ==
    IF i > Len(cs)
    THEN [raised |-> FALSE, clients |-> cs, legs |-> ls]
    ELSE CHOOSE out \in
             {IF r.raised
              THEN [raised |-> TRUE,
                    clients |-> [cs EXCEPT ![i] = r.client],
                    legs |-> [ls EXCEPT ![i] = r.legs]]
              ELSE setup_clients(i + 1, [cs EXCEPT ![i] = r.client],
                                 [ls EXCEPT ![i] = r.legs]) :
                 r \in {setup_client(cs[i])}} : TRUE

----------------------------------------------------------------------------
(* Initial state: a fresh ClientManager, nothing connected *)

ManagerInit ==
    /\ clients = <<>>
    /\ legs = <<>>
    /\ connection = None
    /\ channel = None
    /\ sh_connection = None
    /\ sh_channel = None
    /\ consumer_tags = <<>>
    /\ consumer_tags_closed = 0
    /\ loop = "idle"
    /\ consumers = {}
    /\ cancelling = {}
    /\ cancel_order = <<>>
    /\ close_log = <<>>
    /\ stop_log = <<>>
    /\ raised = <<>>
    /\ default_on_message_error = None
    /\ last_publish = <<>>
    /\ delivered = 0
    /\ tasks = {}
    /\ events = <<>>
    /\ routed = <<>>
    /\ checked = <<>>
    /\ connection_objects = <<>>
    /\ channel_objects = <<>>
    /\ current_connection = 0
    /\ current_channel = 0
    /\ manager_log = <<>>
    /\ got = <<>>
    /\ channel_prefetch = 0
    /\ consumer_prefetch = <<>>
    /\ app_runs = <<>>
    /\ shutdown = FALSE
    /\ subscriptions = {}
    /\ pubsubs = <<>>
    /\ redis_log = <<>>
    /\ points = <<>>
    /\ last_op = <<>>

\* no settings file read and no getter called
NoSettings ==
    [initialized |-> FALSE, section |-> FALSE, local |-> None, global |-> None,
     getter |-> "get_str", default |-> None]

Init ==
    /\ ManagerInit
    /\ address = NoAddress
    /\ settings = NoSettings
    /\ max_length = 0

----------------------------------------------------------------------------
(* src/rabbitmq/connection_manager.py *)

\* get_connection calling on_open_callback on the connection it just created
get_connection_callback_before_open(conn) ==
    [connection |-> "opening", callback_now |-> TRUE]

\* ConnectionManager.get_connection: the branch taken and the connection held
\* afterwards; callback_now is the branch that calls on_open_callback at once
get_connection(conn) ==
    IF conn # None /\ ~(conn = "open")
    THEN [connection |-> conn, callback_now |-> TRUE]
    ELSE [connection |-> "opening", callback_now |-> FALSE]

\* ConnectionManager.get_channel
get_channel(ch) ==
    IF ch # None /\ ch = "open"
    THEN [channel |-> ch, callback_now |-> TRUE]
    ELSE [channel |-> "opening", callback_now |-> FALSE]

\* close_connection without its test of is_closing and is_closed
close_connection_always_closes(conn) ==
    [connection |-> "closing", close |-> TRUE]

\* ConnectionManager.close_connection: whether close() is called, and the
\* state of the connection afterwards
close_connection(conn) ==
    IF conn = "closing" \/ conn = "closed"
    THEN [connection |-> conn, close |-> FALSE]
    ELSE [connection |-> "closing", close |-> TRUE]

----------------------------------------------------------------------------
(* src/rabbitmq/setup_helper.py: setup *)

\* the callback of SetupHelper._setup_channel
OnChannelOpen ==
    /\ sh_channel' = "channel"
    /\ \E r \in {setup_clients(1, clients, legs)} :
           /\ clients' = r.clients
           /\ legs' = r.legs
           /\ raised' = IF r.raised THEN Append(raised, "AttributeError") ELSE raised

\* SetupHelper._setup_channel
SetupChannel ==
    LET g == get_channel(channel)
    IN  IF g.callback_now
        THEN /\ channel' = g.channel
             /\ OnChannelOpen
        ELSE /\ channel' = g.channel
             /\ UNCHANGED <<sh_channel, clients, legs, raised>>

\* the callback of SetupHelper.setup
OnConnectionOpen ==
    /\ sh_connection' = "connection"
    /\ SetupChannel

----------------------------------------------------------------------------
(* src/rabbitmq/client_manager.py *)

\* ClientManager.add_client; start() blocks its caller, so clients are
\* registered before it
AddClient(limit) ==
    /\ loop = "idle"
    /\ Len(clients) < limit
    /\ \E c \in ClientChoices :
          /\ clients' = Append(clients, c)
          /\ legs' = Append(legs, [publisher |-> IdleLeg, subscriber |-> IdleLeg])
    /\ UNCHANGED <<connection, channel, sh_connection, sh_channel, consumer_tags,
                   consumer_tags_closed, loop, consumers, cancelling, cancel_order,
                   close_log, stop_log, raised>>
    /\ UNCHANGED <<messageVars, addressVars, connectionVars, settingsVars, brokerVars, appVars, redisVars, seriesVars>>

\* ClientManager.start: SetupHelper.setup, then ioloop.run_forever
Start ==
    /\ loop = "idle"
    /\ loop' = "running"
    /\ LET g == get_connection(connection)
       IN  IF g.callback_now
           THEN /\ connection' = g.connection
                /\ OnConnectionOpen
           ELSE /\ connection' = g.connection
                /\ UNCHANGED <<sh_connection, channel, sh_channel, clients, legs, raised>>
    /\ UNCHANGED <<consumer_tags, consumer_tags_closed, consumers, cancelling,
                   cancel_order, close_log, stop_log>>
    /\ UNCHANGED <<messageVars, addressVars, connectionVars, settingsVars, brokerVars, appVars, redisVars, seriesVars>>

----------------------------------------------------------------------------
(* Completion callbacks the event loop runs while it is running *)

\* the connection's handshake finished: the callback of SetupHelper.setup
ConnectionOpened ==
    /\ loop = "running"
    /\ connection = "opening"
    /\ connection' = "open"
    /\ OnConnectionOpen
    /\ UNCHANGED <<consumer_tags, consumer_tags_closed, loop, consumers, cancelling,
                   cancel_order, close_log, stop_log>>
    /\ UNCHANGED <<messageVars, addressVars, connectionVars, settingsVars, brokerVars, appVars, redisVars, seriesVars>>

\* the connection could not be opened: no callback of this code is registered
ConnectionOpenFailed ==
    /\ loop = "running"
    /\ connection = "opening"
    /\ connection' = "closed"
    /\ UNCHANGED <<clients, legs, channel, sh_connection, sh_channel, consumer_tags,
                   consumer_tags_closed, loop, consumers, cancelling, cancel_order,
                   close_log, stop_log, raised>>
    /\ UNCHANGED <<messageVars, addressVars, connectionVars, settingsVars, brokerVars, appVars, redisVars, seriesVars>>

\* Channel.OpenOk: the callback of SetupHelper._setup_channel
ChannelOpened ==
    /\ loop = "running"
    /\ channel = "opening"
    /\ channel' = "open"
    /\ OnChannelOpen
    /\ UNCHANGED <<connection, sh_connection, consumer_tags, consumer_tags_closed,
                   loop, consumers, cancelling, cancel_order, close_log, stop_log>>
    /\ UNCHANGED <<messageVars, addressVars, connectionVars, settingsVars, brokerVars, appVars, redisVars, seriesVars>>

Awaiting(i, name, op) ==
    /\ loop = "running"
    /\ i \in DOMAIN legs
    /\ legs[i][name].pc = op

LegUnchanged ==
    /\ UNCHANGED <<clients, connection, channel, sh_connection, sh_channel,
                   consumer_tags, consumer_tags_closed, loop, consumers, cancelling,
                   cancel_order, close_log, stop_log, raised, consumer_prefetch>>
    /\ UNCHANGED <<messageVars, addressVars, connectionVars, settingsVars, appVars, redisVars, seriesVars>>

\* the channel carries its requests in the order they were sent: the prefetch
\* count a later basic_consume is processed under is that of the last
\* basic_qos sent before it, here the one the leg has just sent, if any
QosSent(prefetch, leg) ==
    IF leg.pc = "basic_qos" THEN leg.issued[Len(leg.issued)].prefetch_count ELSE prefetch

\* Exchange.DeclareOk: the lambda of SetupHelper._setup_exchange
ExchangeDeclareOk ==
    \E i \in DOMAIN legs, name \in LegNames :
        /\ Awaiting(i, name, "exchange_declare")
        /\ legs' = [legs EXCEPT ![i][name] =
                       setup_queue(Confirm(legs[i][name]), AddressOf(clients[i], name))]
        /\ channel_prefetch' = QosSent(channel_prefetch, legs'[i][name])
        /\ LegUnchanged

\* Queue.DeclareOk: the lambda of SetupHelper._setup_queue
QueueDeclareOk ==
    \E i \in DOMAIN legs, name \in LegNames :
        /\ Awaiting(i, name, "queue_declare")
        /\ legs' = [legs EXCEPT ![i][name] =
                       setup_routing_key(Confirm(legs[i][name]), clients[i],
                                         AddressOf(clients[i], name),
                                         name = "subscriber")]
        /\ channel_prefetch' = QosSent(channel_prefetch, legs'[i][name])
        /\ LegUnchanged

\* Queue.BindOk: the callback of SetupHelper._setup_routing_key
QueueBindOk ==
    \E i \in DOMAIN legs, name \in LegNames :
        /\ Awaiting(i, name, "queue_bind")
        /\ legs' = [legs EXCEPT ![i][name] =
                       routing_key_callback(Confirm(legs[i][name]), clients[i],
                                            name = "subscriber")]
        /\ channel_prefetch' = QosSent(channel_prefetch, legs'[i][name])
        /\ LegUnchanged

\* Basic.QosOk: the lambda of SetupHelper._setup_qos, which attaches the
\* consumer and records its tag; the tag of client i's consumer is i
BasicQosOk ==
    \E i \in DOMAIN legs, name \in LegNames :
        /\ Awaiting(i, name, "basic_qos")
        /\ legs' = [legs EXCEPT ![i][name] =
                       setup_message_callback(Confirm(legs[i][name]),
                                              AddressOf(clients[i], name))]
        /\ consumer_tags' = Append(consumer_tags, i)
        /\ consumers' = consumers \cup {i}
        /\ consumer_prefetch' = Append(consumer_prefetch, channel_prefetch)
        /\ UNCHANGED <<clients, connection, channel, sh_connection, sh_channel,
                       consumer_tags_closed, loop, cancelling, cancel_order,
                       close_log, stop_log, raised, channel_prefetch>>
        /\ UNCHANGED <<messageVars, addressVars, connectionVars, settingsVars, appVars, redisVars, seriesVars>>

----------------------------------------------------------------------------
(* src/rabbitmq/setup_helper.py: teardown *)

Range(s) == {s[k] : k \in DOMAIN s}

\* RUNNING: the channel-open callback ran and every leg finished its handshake
Running ==
    /\ sh_channel # None
    /\ \A i \in DOMAIN legs, name \in LegNames : legs[i][name].pc \in {"done", "none"}

\* tear_down with a channel that cancels a tag again after its completion
tear_down_cancels_every_tag(tags, ch, known, pending) ==
    IF tags = <<>>
    THEN [cancelling |-> pending, raised |-> <<>>]
    ELSE IF ch # "open"
         THEN [cancelling |-> pending, raised |-> <<"ChannelWrongStateError">>]
         ELSE [cancelling |-> pending \cup Range(tags), raised |-> <<>>]

\* Channel.basic_cancel for every recorded tag: the channel refuses it unless
\* open, and ignores a tag that is unknown or already being cancelled
tear_down(tags, ch, known, pending) ==
    IF tags = <<>>
    THEN [cancelling |-> pending, raised |-> <<>>]
    ELSE IF ch # "open"
         THEN [cancelling |-> pending, raised |-> <<"ChannelWrongStateError">>]
         ELSE [cancelling |-> pending \cup (Range(tags) \cap known), raised |-> <<>>]

\* the close sequence closing the connection before the channel
close_sequence_connection_first(ch, conn) ==
    IF conn \in {"closing", "closed"}
    THEN [channel |-> ch, connection |-> conn, stop |-> FALSE,
          ops |-> <<>>, raised |-> <<"ConnectionWrongStateError">>]
    ELSE [channel |-> IF ch = "open" THEN "closing" ELSE ch,
          connection |-> "closing", stop |-> ch = "open",
          ops |-> IF ch = "open"
                  THEN <<"connection.close", "channel.close", "ioloop.stop">>
                  ELSE <<"connection.close">>,
          raised |-> IF ch = "open" THEN <<>> ELSE <<"ChannelWrongStateError">>]

\* the close sequence of SetupHelper._close_channel_if_all_clients_stopped:
\* Channel.close and Connection.close raise on an object that is not open
close_sequence(ch, conn) ==
    IF ch # "open"
    THEN [channel |-> ch, connection |-> conn, stop |-> FALSE,
          ops |-> <<>>, raised |-> <<"ChannelWrongStateError">>]
    ELSE IF conn \in {"closing", "closed"}
         THEN [channel |-> "closing", connection |-> conn, stop |-> FALSE,
               ops |-> <<"channel.close">>, raised |-> <<"ConnectionWrongStateError">>]
         ELSE [channel |-> "closing", connection |-> "closing", stop |-> TRUE,
               ops |-> <<"channel.close", "connection.close", "ioloop.stop">>,
               raised |-> <<>>]

\* the join test without the count: the first completion closes
all_clients_stopped_at_first(closed, tags) == TRUE

\* the join test of SetupHelper._close_channel_if_all_clients_stopped
all_clients_stopped(closed, tags) == ~(closed < Len(tags))

\* ClientManager.stop -> SetupHelper.tear_down
Stop(limit) ==
    /\ Len(stop_log) < limit
    /\ stop_log' = Append(stop_log, [running |-> Running])
    /\ LET r == tear_down(consumer_tags, channel, consumers, cancelling)
       IN  /\ cancelling' = r.cancelling
           /\ raised' = raised \o r.raised
    /\ UNCHANGED <<clients, legs, connection, channel, sh_connection, sh_channel,
                   consumer_tags, consumer_tags_closed, loop, consumers,
                   cancel_order, close_log>>
    /\ UNCHANGED <<messageVars, addressVars, connectionVars, settingsVars, brokerVars, appVars, redisVars, seriesVars>>

\* Basic.CancelOk for one tag: SetupHelper._close_channel_if_all_clients_stopped
CancelOk ==
    \E tag \in cancelling :
        /\ loop = "running"
        /\ cancelling' = cancelling \ {tag}
        /\ consumers' = consumers \ {tag}
        /\ cancel_order' = Append(cancel_order, tag)
        /\ consumer_tags_closed' = consumer_tags_closed + 1
        /\ IF all_clients_stopped(consumer_tags_closed + 1, consumer_tags)
           THEN LET r == close_sequence(channel, connection)
                IN  /\ channel' = r.channel
                    /\ connection' = r.connection
                    /\ loop' = IF r.stop THEN "stopped" ELSE loop
                    /\ raised' = raised \o r.raised
                    /\ close_log' = Append(close_log,
                                           [ops |-> r.ops,
                                            closed |-> consumer_tags_closed + 1,
                                            tags |-> Len(consumer_tags)])
           ELSE UNCHANGED <<channel, connection, loop, raised, close_log>>
        /\ UNCHANGED <<clients, legs, sh_connection, sh_channel, consumer_tags,
                       stop_log>>
        /\ UNCHANGED <<messageVars, addressVars, connectionVars, settingsVars, brokerVars, appVars, redisVars, seriesVars>>

----------------------------------------------------------------------------
(* src/rabbitmq/client.py *)

\* A Python value a handler receives or publish is given: a str or a dict
StrMessage(text) == [type |-> "str", value |-> text]

DictMessage(repr) == [type |-> "dict", value |-> repr]

NoMessage == [type |-> "none", value |-> ""]

\* the body of a delivery as the broker sent it
BytesMessage(body) == [type |-> "bytes", value |-> body]

Messages == {StrMessage("hello"), DictMessage("{'a': 1}"), DictMessage("{1: 'a'}")}

InvalidUtf8 == "<invalid utf-8>"

\* message bodies the broker delivers
Bodies == {"{\"a\": 1}", "hello", InvalidUtf8}

\* json.dumps of a dict; a key that is no string is written as a string
json_dumps(repr) ==
    IF repr = "{'a': 1}"
    THEN "{\"a\": 1}"
    ELSE IF repr = "{1: 'a'}" THEN "{\"1\": \"a\"}" ELSE "{}"

\* json.loads of a text: "hello" without quotes is no JSON document
json_loads(text) ==
    IF text = "{\"a\": 1}"
    THEN [raised |-> FALSE, message |-> DictMessage("{'a': 1}")]
    ELSE IF text = "{\"1\": \"a\"}"
         THEN [raised |-> FALSE, message |-> DictMessage("{'1': 'a'}")]
         ELSE IF text = "{}"
              THEN [raised |-> FALSE, message |-> DictMessage("{}")]
              ELSE [raised |-> TRUE, message |-> NoMessage]

\* Client._get_publish_properties
PublishProperties == [app_id |-> "Unknown", content_type |-> "application/json"]

BasicPublish(a, body) ==
    [op |-> "basic_publish", exchange |-> a.exchange, routing_key |-> a.routing_key,
     body |-> body, properties |-> PublishProperties]

\* publish testing the publisher address only after the write
publish_checks_after_write(c, message) ==
    IF c.publisher_address = NoAddress
    THEN [raised |-> "MissingPublisherAddressError",
          written |-> <<[op |-> "basic_publish", exchange |-> DEFAULT_EXCHANGE,
                         routing_key |-> None, body |-> message.value,
                         properties |-> PublishProperties]>>]
    ELSE [raised |-> None,
          written |-> <<BasicPublish(c.publisher_address, message.value)>>]

\* Client.publish: the exception it raises, if any, and its basic_publish calls
publish(c, message) ==
    IF c.publisher_address = NoAddress
    THEN [raised |-> "MissingPublisherAddressError", written |-> <<>>]
    ELSE LET body == IF message.type # "str"
                     THEN json_dumps(message.value)
                     ELSE message.value
         IN  IF c.subscriber_address = NoAddress
             \* logging.debug(..., self.subscriber_address.queue)
             THEN [raised |-> "AttributeError", written |-> <<>>]
             ELSE IF c.channel = None
                  THEN [raised |-> "AttributeError", written |-> <<>>]
                  ELSE [raised |-> None,
                        written |-> <<BasicPublish(c.publisher_address, body)>>]

\* _parse_incoming_message returning the text whatever parse_json says
parse_incoming_message_as_text(c, body) ==
    IF body = InvalidUtf8
    THEN [raised |-> "UnicodeDecodeError", message |-> NoMessage]
    ELSE [raised |-> None, message |-> StrMessage(body)]

\* Client._parse_incoming_message
parse_incoming_message(c, body) ==
    IF body = InvalidUtf8
    THEN [raised |-> "UnicodeDecodeError", message |-> NoMessage]
    ELSE IF ~c.parse_json
         THEN [raised |-> None, message |-> StrMessage(body)]
         ELSE LET r == json_loads(body)
              IN  IF r.raised
                  THEN [raised |-> "InvalidFormatError", message |-> NoMessage]
                  ELSE [raised |-> None, message |-> r.message]

Event(op, delivery_tag, i, message, error) ==
    [op |-> op, delivery_tag |-> delivery_tag, client |-> i,
     message |-> message, error |-> error]

\* the except branch trying the process-wide default handler first
handle_error_default_first(c, i, delivery_tag, error, default) ==
    IF default # None
    THEN Event("ON_MESSAGE_ERROR", delivery_tag, i, NoMessage, error)
    ELSE IF c.on_message_error # None
         THEN Event("on_message_error", delivery_tag, i, NoMessage, error)
         ELSE Event("logging.error", delivery_tag, i, NoMessage, error)

\* the except branch of task_wrapper: the three tiers of error handling
handle_error(c, i, delivery_tag, error, default) ==
    IF c.on_message_error # None
    THEN Event("on_message_error", delivery_tag, i, NoMessage, error)
    ELSE IF default # None
         THEN Event("ON_MESSAGE_ERROR", delivery_tag, i, NoMessage, error)
         ELSE Event("logging.error", delivery_tag, i, NoMessage, error)

HandlerOutcomes == {"returns", "raises", "awaitable"}

\* the exception leaving `self.on_message(...)` or `await output`
Raises(where, t) == Event(where, t.delivery_tag, t.client, NoMessage, "HandlerError")

\* task_wrapper without its except clause: the handler's exception ends the task
task_wrapper_without_except(c, t, outcome, default) ==
    LET parsed == parse_incoming_message(c, t.body)
        called == Event("on_message", t.delivery_tag, t.client, parsed.message, None)
    IN  IF parsed.raised # None
        THEN [events |-> <<>>, tasks |-> {}]
        ELSE IF outcome = "raises"
             THEN [events |-> <<called, Raises("on_message raises", t)>>, tasks |-> {}]
             ELSE IF outcome = "returns"
                  THEN [events |-> <<called>>, tasks |-> {}]
                  ELSE [events |-> <<called>>,
                        tasks |-> {[t EXCEPT !.state = "awaiting"]}]

\* task_wrapper up to its first suspension: parse, call the handler, and
\* either finish, handle the error or await the handler's result
task_wrapper(c, t, outcome, default) ==
    LET parsed == parse_incoming_message(c, t.body)
        called == Event("on_message", t.delivery_tag, t.client, parsed.message, None)
    IN  IF parsed.raised # None
        THEN [events |-> <<handle_error(c, t.client, t.delivery_tag, parsed.raised, default)>>,
              tasks |-> {}]
        ELSE IF outcome = "returns"
             THEN [events |-> <<called>>, tasks |-> {}]
             ELSE IF outcome = "raises"
                  THEN [events |-> <<called, Raises("on_message raises", t),
                                     handle_error(c, t.client, t.delivery_tag,
                                                  "HandlerError", default)>>,
                        tasks |-> {}]
                  ELSE [events |-> <<called>>,
                        tasks |-> {[t EXCEPT !.state = "awaiting"]}]

\* task_wrapper after `await output`
task_wrapper_resumed(c, t, outcome, default) ==
    IF outcome = "raises"
    THEN <<Raises("await raises", t),
           handle_error(c, t.client, t.delivery_tag, "HandlerError", default)>>
    ELSE <<>>

\* on_message_wrapper without its test of on_message
on_message_wrapper_always_schedules(i, c, body, delivery_tag) ==
    [events |-> <<Event("on_message_wrapper", delivery_tag, i, BytesMessage(body), None)>>,
     tasks |-> {[client |-> i, delivery_tag |-> delivery_tag, body |-> body,
                 state |-> "scheduled"]}]

\* Client.on_message_wrapper
on_message_wrapper(i, c, body, delivery_tag) ==
    LET entered == Event("on_message_wrapper", delivery_tag, i, BytesMessage(body), None)
    IN  IF c.on_message # None
        THEN [events |-> <<entered>>,
              tasks |-> {[client |-> i, delivery_tag |-> delivery_tag, body |-> body,
                          state |-> "scheduled"]}]
        ELSE [events |-> <<entered>>, tasks |-> {}]

\* acknowledge_and_forward acknowledging after the dispatch
acknowledge_after_forward(i, c, body, delivery_tag) ==
    LET ack == Event("basic_ack", delivery_tag, i, NoMessage, None)
        forwarded == on_message_wrapper(i, c, body, delivery_tag)
    IN  [events |-> forwarded.events \o <<ack>>, tasks |-> forwarded.tasks]

\* acknowledge_and_forward of SetupHelper._setup_message_callback
acknowledge_and_forward(i, c, body, delivery_tag) ==
    LET ack == Event("basic_ack", delivery_tag, i, NoMessage, None)
        forwarded == on_message_wrapper(i, c, body, delivery_tag)
    IN  [events |-> <<ack>> \o forwarded.events, tasks |-> forwarded.tasks]

\* Client.set_default_on_message_error_handler; like add_client it is part of
\* the configuration that precedes the blocking start()
SetDefaultOnMessageErrorHandler ==
    /\ loop = "idle"
    /\ \E handler \in {None, "default_on_message_error"} :
          default_on_message_error' = handler
    /\ UNCHANGED <<last_publish, delivered, tasks, events, routed>>
    /\ UNCHANGED <<coreVars, addressVars, connectionVars, settingsVars, brokerVars, appVars, redisVars, seriesVars>>

\* Client.publish, called by the application at any time
Publish ==
    /\ \E i \in DOMAIN clients, message \in Messages :
          LET r == publish(clients[i], message)
          IN  last_publish' = <<[client |-> i, self |-> clients[i],
                                 message |-> message,
                                 raised |-> r.raised, written |-> r.written]>>
    /\ UNCHANGED <<default_on_message_error, delivered, tasks, events, routed>>
    /\ UNCHANGED <<coreVars, addressVars, connectionVars, settingsVars, brokerVars, appVars, redisVars, seriesVars>>

\* Basic.Deliver to an attached consumer that is not being cancelled
Deliver(limit) ==
    /\ loop = "running"
    /\ delivered < limit
    /\ \E i \in consumers \ cancelling, body \in Bodies :
          LET r == acknowledge_and_forward(i, clients[i], body, delivered + 1)
          IN  /\ events' = events \o r.events
              /\ tasks' = tasks \cup r.tasks
    /\ delivered' = delivered + 1
    /\ UNCHANGED <<default_on_message_error, last_publish, routed>>
    /\ UNCHANGED <<coreVars, addressVars, connectionVars, settingsVars, brokerVars, appVars, redisVars, seriesVars>>

\* the broker routes a message published to an exchange with a routing key
\* to queue q: on the default exchange the queue of that name, else a queue
\* that a confirmed queue_bind bound to the exchange with that key
RoutesTo(exchange, routing_key, q) ==
    IF exchange = DEFAULT_EXCHANGE
    THEN q = routing_key
    ELSE \E i \in DOMAIN legs, name \in LegNames :
            \E k \in 1..legs[i][name].confirmed :
                legs[i][name].issued[k] =
                    [op |-> "queue_bind", queue |-> q, exchange |-> exchange,
                     routing_key |-> routing_key]

\* the broker routes the body of the latest publish to a consumer of a
\* queue it goes to
RoutePublished(limit) ==
    /\ loop = "running"
    /\ delivered < limit
    /\ last_publish # <<>>
    /\ last_publish[1].written # <<>>
    /\ LET written == last_publish[1].written[1]
       IN  \E i \in consumers \ cancelling :
              /\ RoutesTo(written.exchange, written.routing_key,
                          clients[i].subscriber_address.queue)
              /\ LET r == acknowledge_and_forward(i, clients[i], written.body,
                                                  delivered + 1)
                 IN  /\ events' = events \o r.events
                     /\ tasks' = tasks \cup r.tasks
    /\ routed' = Append(routed, [delivery_tag |-> delivered + 1,
                                 message |-> last_publish[1].message])
    /\ delivered' = delivered + 1
    /\ UNCHANGED <<default_on_message_error, last_publish>>
    /\ UNCHANGED <<coreVars, addressVars, connectionVars, settingsVars, brokerVars, appVars, redisVars, seriesVars>>

\* an event loop that starts its tasks in any order
starts_in_any_order(t, ts) == TRUE

\* loop.create_task puts the task at the end of the loop's ready queue: of
\* the tasks not yet started, the one created first starts first
starts_first(t, ts) ==
    \A u \in ts : u.state = "scheduled" => t.delivery_tag <= u.delivery_tag

\* the event loop runs a task created by on_message_wrapper; tasks start in
\* the order loop.create_task was called
RunTask ==
    /\ loop = "running"
    /\ \E t \in tasks, outcome \in HandlerOutcomes :
          /\ t.state = "scheduled"
          /\ starts_first(t, tasks)
          /\ LET r == task_wrapper(clients[t.client], t, outcome,
                                   default_on_message_error)
             IN  /\ events' = events \o r.events
                 /\ tasks' = (tasks \ {t}) \cup r.tasks
    /\ UNCHANGED <<default_on_message_error, last_publish, delivered, routed>>
    /\ UNCHANGED <<coreVars, addressVars, connectionVars, settingsVars, brokerVars, appVars, redisVars, seriesVars>>

\* the awaited result of an asynchronous handler completes
ResumeTask ==
    /\ loop = "running"
    /\ \E t \in tasks, outcome \in {"returns", "raises"} :
          /\ t.state = "awaiting"
          /\ events' = events \o task_wrapper_resumed(clients[t.client], t, outcome,
                                                      default_on_message_error)
          /\ tasks' = tasks \ {t}
    /\ UNCHANGED <<default_on_message_error, last_publish, delivered, routed>>
    /\ UNCHANGED <<coreVars, addressVars, connectionVars, settingsVars, brokerVars, appVars, redisVars, seriesVars>>

----------------------------------------------------------------------------
(* Address on its own: every way an application can fill in an Address *)

Queues == {None, "", "q1", "q2"}

RoutingKeys == {None, "", "rk1", "q1"}

Exchanges == {DEFAULT_EXCHANGE, "ex1"}

ExchangeTypes == {"direct", "topic"}

Addresses ==
    {Address(q, rk, e, t) : q \in Queues, rk \in RoutingKeys,
                            e \in Exchanges, t \in ExchangeTypes}

AddressInit ==
    /\ ManagerInit
    /\ address \in Addresses
    /\ settings = NoSettings
    /\ max_length = 0

\* the application calls Address.check_attributes itself
CheckAttributes ==
    /\ checked = <<>>
    /\ LET chk == check_attributes(address)
       IN  checked' = <<[op |-> "check_attributes", raised |-> chk.raised,
                         address |-> chk.address, issued |-> <<>>]>>
    /\ UNCHANGED <<address, coreVars, messageVars, connectionVars, settingsVars, brokerVars, appVars, redisVars, seriesVars>>

\* SetupHelper._setup_address on a channel that is open
SetupAddress ==
    /\ checked = <<>>
    /\ LET r == setup_address(address)
       IN  checked' = <<[op |-> "_setup_address", raised |-> r.raised,
                         address |-> r.address, issued |-> r.leg.issued]>>
    /\ UNCHANGED <<address, coreVars, messageVars, connectionVars, settingsVars, brokerVars, appVars, redisVars, seriesVars>>

----------------------------------------------------------------------------
(* ConnectionManager on its own: its class methods called in any order,     *)
(* and pika completing what they started                                    *)

\* the state of the object a reference points to; None for no object
StateOf(objects, k) == IF k = 0 THEN None ELSE objects[k].state

\* one line of manager_log: the method called or the callback invoked, the
\* object it found or received, that object's state, and what was done
ManagerEntry(call, object, state, did) ==
    [call |-> call, object |-> object, state |-> state, did |-> did]

ManagerCalls ==
    Cardinality({k \in DOMAIN manager_log : manager_log[k].did # "invoked"})

\* ConnectionManager.get_connection(on_open_callback)
GetConnection ==
    /\ ManagerCalls < MaxManagerCalls
    /\ LET cur == StateOf(connection_objects, current_connection)
           g == get_connection(cur)
       IN  IF g.callback_now
           THEN /\ manager_log' = manager_log \o
                       <<ManagerEntry("get_connection", current_connection, cur, "returned"),
                         ManagerEntry("connection.on_open_callback", current_connection,
                                      cur, "invoked")>>
                /\ UNCHANGED <<connection_objects, current_connection>>
           ELSE /\ connection_objects' =
                       Append(connection_objects, [state |-> g.connection, closes |-> 0])
                /\ current_connection' = Len(connection_objects) + 1
                /\ manager_log' = Append(manager_log,
                       ManagerEntry("get_connection", current_connection, cur, "created"))
    /\ UNCHANGED <<channel_objects, current_channel>>
    /\ UNCHANGED <<coreVars, messageVars, addressVars, settingsVars, brokerVars, appVars, redisVars, seriesVars>>

\* pika finishes the handshake of a connection and calls its on_open_callback
ConnectionObjectOpened ==
    /\ \E k \in DOMAIN connection_objects :
          /\ connection_objects[k].state = "opening"
          /\ connection_objects' = [connection_objects EXCEPT ![k].state = "open"]
          /\ manager_log' = Append(manager_log,
                 ManagerEntry("connection.on_open_callback", k, "open", "invoked"))
    /\ UNCHANGED <<channel_objects, current_connection, current_channel>>
    /\ UNCHANGED <<coreVars, messageVars, addressVars, settingsVars, brokerVars, appVars, redisVars, seriesVars>>

\* the handshake fails; no on_open_error_callback was registered
ConnectionObjectFailed ==
    /\ \E k \in DOMAIN connection_objects :
          /\ connection_objects[k].state = "opening"
          /\ connection_objects' = [connection_objects EXCEPT ![k].state = "closed"]
    /\ UNCHANGED <<channel_objects, current_connection, current_channel, manager_log>>
    /\ UNCHANGED <<coreVars, messageVars, addressVars, settingsVars, brokerVars, appVars, redisVars, seriesVars>>

\* ConnectionManager.get_channel(on_open_callback); Connection.channel raises
\* unless the connection is open
GetChannel ==
    /\ ManagerCalls < MaxManagerCalls
    /\ LET cur == StateOf(channel_objects, current_channel)
           conn == StateOf(connection_objects, current_connection)
           g == get_channel(cur)
       IN  IF g.callback_now
           THEN /\ manager_log' = manager_log \o
                       <<ManagerEntry("get_channel", current_channel, cur, "returned"),
                         ManagerEntry("channel.on_open_callback", current_channel,
                                      cur, "invoked")>>
                /\ UNCHANGED <<channel_objects, current_channel>>
           ELSE IF conn = "open"
                THEN /\ channel_objects' =
                            Append(channel_objects, [state |-> g.channel,
                                                     connection |-> current_connection])
                     /\ current_channel' = Len(channel_objects) + 1
                     /\ manager_log' = Append(manager_log,
                            ManagerEntry("get_channel", current_channel, cur, "created"))
                ELSE /\ manager_log' = Append(manager_log,
                            ManagerEntry("get_channel", current_channel, cur,
                                         IF conn = None THEN "AttributeError"
                                         ELSE "ConnectionWrongStateError"))
                     /\ UNCHANGED <<channel_objects, current_channel>>
    /\ UNCHANGED <<connection_objects, current_connection>>
    /\ UNCHANGED <<coreVars, messageVars, addressVars, settingsVars, brokerVars, appVars, redisVars, seriesVars>>

\* the broker confirms a channel and pika calls its on_open_callback
ChannelObjectOpened ==
    /\ \E k \in DOMAIN channel_objects :
          /\ channel_objects[k].state = "opening"
          /\ channel_objects' = [channel_objects EXCEPT ![k].state = "open"]
          /\ manager_log' = Append(manager_log,
                 ManagerEntry("channel.on_open_callback", k, "open", "invoked"))
    /\ UNCHANGED <<connection_objects, current_connection, current_channel>>
    /\ UNCHANGED <<coreVars, messageVars, addressVars, settingsVars, brokerVars, appVars, redisVars, seriesVars>>

\* the channels of connection k in the given state; Connection.close closes
\* the channels of the connection first
ChannelsOf(k, from, to) ==
    [j \in DOMAIN channel_objects |->
        IF channel_objects[j].connection = k /\ channel_objects[j].state \in from
        THEN [channel_objects[j] EXCEPT !.state = to]
        ELSE channel_objects[j]]

\* ConnectionManager.close_connection()
CloseConnection ==
    /\ ManagerCalls < MaxManagerCalls
    /\ LET cur == StateOf(connection_objects, current_connection)
       IN  IF cur = None
           THEN /\ manager_log' = Append(manager_log,
                       ManagerEntry("close_connection", 0, cur, "AttributeError"))
                /\ UNCHANGED <<connection_objects, channel_objects>>
           ELSE LET c == close_connection(cur)
                IN  IF c.close
                    THEN /\ connection_objects' =
                                [connection_objects EXCEPT
                                    ![current_connection].state = c.connection,
                                    ![current_connection].closes = @ + 1]
                         /\ channel_objects' =
                                ChannelsOf(current_connection, {"opening", "open"}, "closing")
                         /\ manager_log' = Append(manager_log,
                                ManagerEntry("close_connection", current_connection,
                                             cur, "close"))
                    ELSE /\ manager_log' = Append(manager_log,
                                ManagerEntry("close_connection", current_connection,
                                             cur, "nothing"))
                         /\ UNCHANGED <<connection_objects, channel_objects>>
    /\ UNCHANGED <<current_connection, current_channel>>
    /\ UNCHANGED <<coreVars, messageVars, addressVars, settingsVars, brokerVars, appVars, redisVars, seriesVars>>

\* the broker confirms the close of a connection
ConnectionObjectClosed ==
    /\ \E k \in DOMAIN connection_objects :
          /\ connection_objects[k].state = "closing"
          /\ connection_objects' = [connection_objects EXCEPT ![k].state = "closed"]
          /\ channel_objects' = ChannelsOf(k, {"closing"}, "closed")
    /\ UNCHANGED <<current_connection, current_channel, manager_log>>
    /\ UNCHANGED <<coreVars, messageVars, addressVars, settingsVars, brokerVars, appVars, redisVars, seriesVars>>

----------------------------------------------------------------------------
(* src/app_settings.py: AppSettings and its typed getters *)

\* the option as text in the section of the current environment and in the
\* global section; None where it is not written
LocalTexts == {None, "1"}

GlobalTexts == {None, "0"}

Getters == {"get_str", "get_int", "get_bool", "get_float"}

\* defaults a caller passes; None is the parameter left out
Defaults == {None, "", "9"}

\* a settings file that was read (or not: then the parser is empty), and the
\* getter call made on it
SettingsChoices ==
    {x \in [initialized : BOOLEAN, section : BOOLEAN, local : LocalTexts,
            global : GlobalTexts, getter : Getters, default : Defaults] :
        /\ ~x.initialized => ~x.section /\ x.global = None
        /\ ~x.section => x.local = None}

\* ConfigParser.get(section, option): the text, or the error it raises; every
\* section inherits the options of the global section
parser_get(cfg, section) ==
    IF section = "DEFAULT"
    THEN IF cfg.global # None
         THEN [raised |-> None, text |-> cfg.global]
         ELSE [raised |-> "NoOptionError", text |-> None]
    ELSE IF ~cfg.section
         THEN [raised |-> "NoSectionError", text |-> None]
         ELSE IF cfg.local # None
              THEN [raised |-> None, text |-> cfg.local]
              ELSE IF cfg.global # None
                   THEN [raised |-> None, text |-> cfg.global]
                   ELSE [raised |-> "NoOptionError", text |-> None]

\* the conversion of ConfigParser.get, getint, getboolean and getfloat
Converted(getter, text) ==
    IF getter = "get_str"
    THEN [type |-> "str", value |-> text]
    ELSE IF getter = "get_int"
         THEN [type |-> "int", value |-> text]
         ELSE IF getter = "get_bool"
              THEN [type |-> "bool", value |-> IF text = "1" THEN "True" ELSE "False"]
              ELSE [type |-> "float", value |-> IF text = "1" THEN "1.0" ELSE "0.0"]

\* a default is returned as the caller passed it
Passed(default) == [type |-> "default", value |-> default]

\* AppSettings._try_to_get_local_environment_fallback_to_global
try_to_get_local_environment_fallback_to_global(cfg) ==
    LET planA == parser_get(cfg, "development")
        planB == parser_get(cfg, "DEFAULT")
    IN  IF planA.raised = None
        THEN planA
        ELSE IF planB.raised = None
             THEN planB
             ELSE [raised |-> "NoOptionError", text |-> None]

\* _get_any taking the default whenever one was passed
get_any_default_first(cfg) ==
    IF cfg.default # None
    THEN [raised |-> None, value |-> Passed(cfg.default)]
    ELSE LET out == try_to_get_local_environment_fallback_to_global(cfg)
         IN  IF out.raised = None
             THEN [raised |-> None, value |-> Converted(cfg.getter, out.text)]
             ELSE [raised |-> out.raised, value |-> Passed(None)]

\* AppSettings._get_any, with _check_setup
get_any(cfg) ==
    IF ~cfg.initialized /\ cfg.default = None
    THEN [raised |-> "RuntimeError", value |-> Passed(None)]
    ELSE LET out == try_to_get_local_environment_fallback_to_global(cfg)
         IN  IF out.raised = None
             THEN [raised |-> None, value |-> Converted(cfg.getter, out.text)]
             ELSE IF cfg.default = None
                  THEN [raised |-> out.raised, value |-> Passed(None)]
                  ELSE [raised |-> None, value |-> Passed(cfg.default)]

SettingsInit ==
    /\ ManagerInit
    /\ address = NoAddress
    /\ settings \in SettingsChoices
    /\ max_length = 0

\* AppSettings.get_str, get_int, get_bool or get_float
GetSetting ==
    /\ got = <<>>
    /\ got' = <<get_any(settings)>>
    /\ UNCHANGED <<settings, coreVars, messageVars, addressVars, connectionVars, brokerVars, appVars, redisVars, seriesVars>>


----------------------------------------------------------------------------
(* src/app_manager.py: the lifecycle wrapper *)

\* how a hook of the application ends: it returns, raises an Exception, is
\* interrupted by ctrl+C (KeyboardInterrupt), is interrupted by SIGTERM (the
\* registered handler sets shutdown and raises KeyboardInterrupt), or calls
\* AppManager.force_stop (shutdown is set and sys.exit raises SystemExit)
HookOutcomes == {"returns", "raises", "KeyboardInterrupt", "SIGTERM", "force_stop"}

TearDownOutcomes == {"returns", "raises"}

\* the exception that leaves a hook
Thrown(hook, outcome) ==
    IF outcome = "returns"
    THEN None
    ELSE IF outcome = "raises"
         THEN hook
         ELSE IF outcome = "force_stop" THEN "SystemExit" ELSE "KeyboardInterrupt"

\* KeyboardInterrupt and SystemExit are no subclasses of Exception
IsException(outcome) == outcome = "raises"

SetsShutdown(outcome) == outcome \in {"SIGTERM", "force_stop"}

\* AppManager._execute_tear_down: the exception of tear_down is logged and
\* raised again
execute_tear_down(t) ==
    [calls |-> <<"flush_log", "tear_down">>, raised |-> Thrown("tear_down", t)]

\* AppManager.start: the calls it makes, in order, the exception that leaves
\* it, and whether shutdown is set when it ends
start(s, r, t) ==
    LET td == execute_tear_down(t)
        before == <<"shutdown.clear", "AppSettings.setup", "setup">>
    IN  IF IsException(s)
        THEN [calls |-> before \o td.calls,
              raised |-> IF td.raised # None THEN td.raised ELSE Thrown("setup", s),
              shutdown |-> FALSE]
        ELSE IF s # "returns"
             THEN [calls |-> before, raised |-> Thrown("setup", s),
                   shutdown |-> SetsShutdown(s)]
             ELSE [calls |-> before \o <<"run">> \o td.calls,
                   raised |-> IF td.raised # None
                              THEN td.raised
                              ELSE IF r \in {"raises", "force_stop"}
                                   THEN Thrown("run", r)
                                   ELSE None,
                   shutdown |-> SetsShutdown(r)]

\* the application calls App.start(); the hooks end in any of their ways
AppStart ==
    /\ Len(app_runs) < MaxStarts
    /\ \E s \in HookOutcomes, r \in HookOutcomes, t \in TearDownOutcomes :
          LET a == start(s, r, t)
          IN  /\ app_runs' = Append(app_runs, [setup |-> s, run |-> r, tear_down |-> t,
                                               calls |-> a.calls, raised |-> a.raised])
              /\ shutdown' = a.shutdown
    /\ UNCHANGED <<coreVars, messageVars, addressVars, connectionVars, settingsVars,
                   brokerVars, redisVars, seriesVars>>


----------------------------------------------------------------------------
(* src/daos/redis_manager.py *)

\* redis channels an application subscribes to
Channels == {"a", "b"}

\* the channels with an entry in the dict _subscriptions
Keys(subs) == {e.channel : e \in subs}

\* RedisManager.get_subscription_by_channel: the KeyError of a missing key
\* is its value "KeyError"
get_subscription_by_channel(subs, c) ==
    IF c \in Keys(subs) THEN CHOOSE e \in subs : e.channel = c ELSE "KeyError"

\* RedisManager.is_subscribed_to
is_subscribed_to(subs, c) == c \in Keys(subs)

\* RedisManager.unsubscribe: the pubsub of the channel unsubscribes and its
\* worker thread is stopped; the dict is left as it is
unsubscribe(subs, ps, c) ==
    IF ~is_subscribed_to(subs, c)
    THEN [subscriptions |-> subs, pubsubs |-> ps, logged |-> "KeyError"]
    ELSE LET k == get_subscription_by_channel(subs, c).pubsub
         IN  [subscriptions |-> subs,
              pubsubs |-> [ps EXCEPT ![k] = [@ EXCEPT !.subscribed = FALSE,
                                                      !.thread = "stopped"]],
              logged |-> "Unsubscribed"]

\* RedisManager.subscribe: _unsubscribe_if_already_subscribed, then
\* _create_pubsub_and_thread, then the entry of the channel is set
subscribe(subs, ps, c) ==
    LET u == IF is_subscribed_to(subs, c)
             THEN unsubscribe(subs, ps, c)
             ELSE [subscriptions |-> subs, pubsubs |-> ps, logged |-> None]
        created == Append(u.pubsubs, [channel |-> c, subscribed |-> TRUE,
                                      thread |-> "running"])
    IN  [subscriptions |-> {e \in u.subscriptions : e.channel # c}
                               \cup {[channel |-> c, pubsub |-> Len(created)]},
         pubsubs |-> created,
         logged |-> "Subscribed"]

\* RedisManager.clean_up: unsubscribe for every key of the dict
RECURSIVE clean_up(_, _, _)
clean_up(keys, subs, ps) ==
    IF keys = {}
    THEN [subscriptions |-> subs, pubsubs |-> ps, logged |-> None]
    ELSE LET c == CHOOSE k \in keys : TRUE
             u == unsubscribe(subs, ps, c)
         IN  clean_up(keys \ {c}, u.subscriptions, u.pubsubs)

RedisCall(call, c, result) == [call |-> call, channel |-> c, result |-> result]

RedisUnchanged ==
    UNCHANGED <<coreVars, messageVars, addressVars, connectionVars, settingsVars,
                brokerVars, appVars, seriesVars>>

Subscribe ==
    /\ Len(redis_log) < MaxRedisCalls
    /\ \E c \in Channels :
          LET r == subscribe(subscriptions, pubsubs, c)
          IN  /\ subscriptions' = r.subscriptions
              /\ pubsubs' = r.pubsubs
              /\ redis_log' = Append(redis_log, RedisCall("subscribe", c, r.logged))
    /\ RedisUnchanged

Unsubscribe ==
    /\ Len(redis_log) < MaxRedisCalls
    /\ \E c \in Channels :
          LET r == unsubscribe(subscriptions, pubsubs, c)
          IN  /\ subscriptions' = r.subscriptions
              /\ pubsubs' = r.pubsubs
              /\ redis_log' = Append(redis_log, RedisCall("unsubscribe", c, r.logged))
    /\ RedisUnchanged

CleanUp ==
    /\ Len(redis_log) < MaxRedisCalls
    /\ LET r == clean_up(Keys(subscriptions), subscriptions, pubsubs)
       IN  /\ subscriptions' = r.subscriptions
           /\ pubsubs' = r.pubsubs
           /\ redis_log' = Append(redis_log, RedisCall("clean_up", None, None))
    /\ RedisUnchanged

IsSubscribedTo ==
    /\ Len(redis_log) < MaxRedisCalls
    /\ \E c \in Channels :
          redis_log' = Append(redis_log,
                              RedisCall("is_subscribed_to", c,
                                        IF is_subscribed_to(subscriptions, c)
                                        THEN "True" ELSE "False"))
    /\ UNCHANGED <<subscriptions, pubsubs>>
    /\ RedisUnchanged


----------------------------------------------------------------------------
(* src/utils/time_series.py *)

Timestamps == 1..3

Values == {"x", "y"}

Point(timestamp, value) == [timestamp |-> timestamp, value |-> value]

Points == {Point(ts, v) : ts \in Timestamps, v \in Values}

\* arguments of TimeSeries.pop: list indexes, from the end when negative
Indexes == {-2, -1, 0, 1}

\* a TimeSeries as its constructor leaves it, without or with a max_length
SeriesInit ==
    /\ ManagerInit
    /\ address = NoAddress
    /\ settings = NoSettings
    /\ max_length \in 0..MaxLength

\* TimeSeries._remove_first_n: self._points[n:]
remove_first_n(ps, n) == SubSeq(ps, n + 1, Len(ps))

\* TimeSeries.is_full
is_full(L, ps) == IF L = 0 THEN FALSE ELSE L <= Len(ps)

\* TimeSeries._calculate_overflow
calculate_overflow(L, ps) ==
    IF L = 0 THEN 0 ELSE IF Len(ps) - L > 0 THEN Len(ps) - L ELSE 0

\* _sort leaving the list as it is
sort_keeps_order(ps) == ps

\* TimeSeries._sort: list.sort by timestamp, which keeps the order of points
\* with equal timestamps
RECURSIVE sort(_)
sort(ps) ==
    IF ps = <<>>
    THEN <<>>
    ELSE LET p == ps[Len(ps)]
             rest == sort(SubSeq(ps, 1, Len(ps) - 1))
         IN  SelectSeq(rest, LAMBDA q : q.timestamp <= p.timestamp)
                 \o <<p>>
                 \o SelectSeq(rest, LAMBDA q : q.timestamp > p.timestamp)

\* insert_point without its test of is_full
insert_point_without_limit(L, ps, p) == sort(Append(ps, p))

\* TimeSeries.insert_point
insert_point(L, ps, p) ==
    LET kept == IF is_full(L, ps)
                THEN remove_first_n(ps, calculate_overflow(L, ps) + 1)
                ELSE ps
    IN  sort(Append(kept, p))

\* TimeSeries.pop: list.pop(index)
pop(ps, index) ==
    LET k == IF index < 0 THEN Len(ps) + index + 1 ELSE index + 1
    IN  IF k \in DOMAIN ps
        THEN [points |-> SubSeq(ps, 1, k - 1) \o SubSeq(ps, k + 1, Len(ps)),
              returned |-> <<ps[k]>>, raised |-> None]
        ELSE [points |-> ps, returned |-> <<>>, raised |-> "IndexError"]

\* TimeSeries.pop_first
pop_first(ps) == pop(ps, 0)

\* TimeSeries.get_first
get_first(ps) == ps[1]

\* TimeSeries.get_last
get_last(ps) == ps[Len(ps)]

SeriesCall(op, before, argument, returned, error) ==
    [op |-> op, before |-> before, argument |-> argument, returned |-> returned,
     raised |-> error]

SeriesUnchanged ==
    UNCHANGED <<max_length, coreVars, messageVars, addressVars, connectionVars,
                settingsVars, brokerVars, appVars, redisVars>>

\* TimeSeries.insert, which is insert_point of a new Point; a series without
\* max_length is filled up to MaxPoints points
Insert ==
    /\ Len(points) < MaxPoints \/ is_full(max_length, points)
    /\ \E p \in Points :
          /\ points' = insert_point(max_length, points, p)
          /\ last_op' = <<SeriesCall("insert", points, <<p>>, <<>>, None)>>
    /\ SeriesUnchanged

Pop ==
    /\ \E index \in Indexes :
          LET r == pop(points, index)
          IN  /\ points' = r.points
              /\ last_op' = <<SeriesCall("pop", points, <<index>>, r.returned, r.raised)>>
    /\ SeriesUnchanged

PopFirst ==
    /\ LET r == pop_first(points)
       IN  /\ points' = r.points
           /\ last_op' = <<SeriesCall("pop_first", points, <<>>, r.returned, r.raised)>>
    /\ SeriesUnchanged

----------------------------------------------------------------------------

Next ==
    \/ AddClient(MaxClients)
    \/ Start
    \/ ConnectionOpened
    \/ ConnectionOpenFailed
    \/ ChannelOpened
    \/ ExchangeDeclareOk
    \/ QueueDeclareOk
    \/ QueueBindOk
    \/ BasicQosOk
    \/ Stop(MaxStops)
    \/ CancelOk

\* setup and teardown of up to MaxClients clients
Spec == Init /\ [][Next]_vars

PublishNext ==
    \/ AddClient(MaxMessageClients)
    \/ Start
    \/ ConnectionOpened
    \/ ConnectionOpenFailed
    \/ ChannelOpened
    \/ ExchangeDeclareOk
    \/ QueueDeclareOk
    \/ QueueBindOk
    \/ BasicQosOk
    \/ Stop(MaxMessageStops)
    \/ CancelOk
    \/ Publish

\* the same, with the application publishing
PublishSpec == Init /\ [][PublishNext]_vars

DeliveryNext ==
    \/ AddClient(MaxMessageClients)
    \/ Start
    \/ ConnectionOpened
    \/ ConnectionOpenFailed
    \/ ChannelOpened
    \/ ExchangeDeclareOk
    \/ QueueDeclareOk
    \/ QueueBindOk
    \/ BasicQosOk
    \/ Stop(MaxMessageStops)
    \/ CancelOk
    \/ SetDefaultOnMessageErrorHandler
    \/ Deliver(MaxDeliveries)
    \/ RunTask
    \/ ResumeTask

\* the same, with the broker delivering messages
DeliverySpec == Init /\ [][DeliveryNext]_vars

\* Basic.Deliver in the steady state, after the setup of every client
SteadyDeliver ==
    /\ Running
    /\ Deliver(MaxSteadyDeliveries)

ConsumingNext ==
    \/ AddClient(MaxMessageClients)
    \/ Start
    \/ ConnectionOpened
    \/ ChannelOpened
    \/ ExchangeDeclareOk
    \/ QueueDeclareOk
    \/ QueueBindOk
    \/ BasicQosOk
    \/ SteadyDeliver
    \/ RunTask
    \/ ResumeTask

\* up to MaxSteadyDeliveries messages consumed in the steady state
ConsumingSpec == Init /\ [][ConsumingNext]_vars

RoundTripNext ==
    \/ AddClient(MaxMessageClients)
    \/ Start
    \/ ConnectionOpened
    \/ ChannelOpened
    \/ ExchangeDeclareOk
    \/ QueueDeclareOk
    \/ QueueBindOk
    \/ BasicQosOk
    \/ Publish
    \/ RoutePublished(MaxDeliveries)
    \/ RunTask
    \/ ResumeTask

\* what a client publishes comes back to a consumer
RoundTripSpec == Init /\ [][RoundTripNext]_vars

SetupNext ==
    \/ AddClient(MaxClients)
    \/ Start
    \/ ConnectionOpened
    \/ ChannelOpened
    \/ ExchangeDeclareOk
    \/ QueueDeclareOk
    \/ QueueBindOk
    \/ BasicQosOk

\* the event loop runs the completion callback of an answered request
Answered ==
    \/ ConnectionOpened
    \/ ChannelOpened
    \/ ExchangeDeclareOk
    \/ QueueDeclareOk
    \/ QueueBindOk
    \/ BasicQosOk

\* setup with a broker that answers every request: while an answer is
\* outstanding the event loop eventually runs a completion callback
AnsweredSpec == Init /\ [][SetupNext]_vars /\ WF_vars(Answered)

RedisNext ==
    \/ Subscribe
    \/ Unsubscribe
    \/ CleanUp
    \/ IsSubscribedTo

\* up to MaxRedisCalls calls of one RedisManager
RedisSpec == Init /\ [][RedisNext]_vars

AppNext == AppStart

SeriesNext ==
    \/ Insert
    \/ Pop
    \/ PopFirst

\* one TimeSeries and any sequence of calls
SeriesSpec == SeriesInit /\ [][SeriesNext]_vars

\* up to MaxStarts calls of AppManager.start
AppSpec == Init /\ [][AppNext]_vars

SettingsNext == GetSetting

\* one call of a typed getter on one settings file
SettingsSpec == SettingsInit /\ [][SettingsNext]_vars

AddressNext ==
    \/ CheckAttributes
    \/ SetupAddress

\* one Address, validated or set up once
AddressSpec == AddressInit /\ [][AddressNext]_vars

ConnectionNext ==
    \/ GetConnection
    \/ ConnectionObjectOpened
    \/ ConnectionObjectFailed
    \/ GetChannel
    \/ ChannelObjectOpened
    \/ CloseConnection
    \/ ConnectionObjectClosed

\* up to MaxManagerCalls calls of ConnectionManager's class methods
ConnectionSpec == Init /\ [][ConnectionNext]_vars

----------------------------------------------------------------------------
(* Vocabulary of the properties *)

PendingOps == {"exchange_declare", "queue_declare", "queue_bind", "basic_qos"}

Chain == <<"exchange_declare", "queue_declare", "queue_bind", "basic_qos", "basic_consume">>

Rank(op) == CHOOSE k \in DOMAIN Chain : Chain[k] = op

Ops(leg) == {leg.issued[k].op : k \in DOMAIN leg.issued}

CloseOps == <<"channel.close", "connection.close", "ioloop.stop">>

\* a stop call was made in the RUNNING state
StoppedWhenRunning == \E k \in DOMAIN stop_log : stop_log[k].running

\* the broker has answered every request of the handshake
SetupQuiescent ==
    /\ loop = "running"
    /\ sh_channel # None
    /\ \A i \in DOMAIN legs, name \in LegNames : legs[i][name].pc \notin PendingOps

MissingQueue(a) == a # NoAddress /\ a.queue = None

\* check_attributes raised for no address up to this leg, in the order of
\* _setup_clients (clients in registration order, publisher leg first)
Validated(i, name) ==
    /\ \A j \in 1..(i - 1), n \in LegNames : ~MissingQueue(AddressOf(clients[j], n))
    /\ ~MissingQueue(clients[i].publisher_address)
    /\ name = "subscriber" => ~MissingQueue(clients[i].subscriber_address)

----------------------------------------------------------------------------
(* Teardown *)

C2_EmptyJoinCloses ==
    (StoppedWhenRunning /\ clients # <<>> /\ consumer_tags = <<>>) =>
        /\ Len(close_log) = 1
        /\ channel \in {"closing", "closed"}
        /\ connection \in {"closing", "closed"}
        /\ loop = "stopped"

\* C3: once stop has been called in the RUNNING state and the broker has
\* acknowledged every cancel request, the event loop is stopped, whatever
\* clients are registered.
C3_StopEndsLoop ==
    (StoppedWhenRunning /\ cancelling = {}) => loop = "stopped"

----------------------------------------------------------------------------
(* Setup *)

\* C4: an address on the default exchange never has an exchange_declare or a
\* queue_bind issued for it.
C4_DefaultExchangeSkips ==
    \A i \in DOMAIN legs, name \in LegNames :
        LET a == AddressOf(clients[i], name)
        IN  (a # NoAddress /\ a.exchange = DEFAULT_EXCHANGE) =>
                Ops(legs[i][name]) \cap {"exchange_declare", "queue_bind"} = {}

\* a publisher leg and a subscriber leg on the default exchange both finished
C4_DefaultLegsDone ==
    \E i, j \in DOMAIN legs :
        /\ clients[i].publisher_address # NoAddress
        /\ clients[i].publisher_address.exchange = DEFAULT_EXCHANGE
        /\ legs[i].publisher.pc = "done"
        /\ clients[j].subscriber_address # NoAddress
        /\ clients[j].subscriber_address.exchange = DEFAULT_EXCHANGE
        /\ legs[j].subscriber.pc = "done"

NonDefault(i, name) ==
    /\ AddressOf(clients[i], name) # NoAddress
    /\ AddressOf(clients[i], name).exchange # DEFAULT_EXCHANGE

DeclaredAndBound(i, name) ==
    LET a == AddressOf(clients[i], name)
        issued == Range(legs[i][name].issued)
    IN  /\ [op |-> "exchange_declare", exchange |-> a.exchange,
            exchange_type |-> a.exchange_type] \in issued
        /\ [op |-> "queue_declare", queue |-> a.queue] \in issued
        /\ [op |-> "queue_bind", queue |-> a.queue, exchange |-> a.exchange,
            routing_key |-> a.routing_key] \in issued
        /\ a.routing_key # None

\* C5 as stated: once the broker has answered every request, every non-null
\* address on a non-default exchange has its exchange declared, its queue
\* declared and its queue bound.
C5_EveryNonDefaultBound ==
    SetupQuiescent =>
        \A i \in DOMAIN legs, name \in LegNames :
            NonDefault(i, name) => DeclaredAndBound(i, name)

\* C5 amended: the same for every such address that setup reaches, that is
\* when neither it nor an address set up before it lacks its queue.
C5_ValidatedNonDefaultBound ==
    SetupQuiescent =>
        \A i \in DOMAIN legs, name \in LegNames :
            (NonDefault(i, name) /\ Validated(i, name)) => DeclaredAndBound(i, name)

\* a subscriber and a publisher address on non-default exchanges, both bound
C5_NonDefaultLegsBound ==
    /\ SetupQuiescent
    /\ \E i, j \in DOMAIN legs :
          /\ NonDefault(i, "publisher")
          /\ DeclaredAndBound(i, "publisher")
          /\ NonDefault(j, "subscriber")
          /\ DeclaredAndBound(j, "subscriber")

\* the client of the scenario, after check_attributes
ScenarioClient(c) ==
    /\ c.subscriber_address = Address("q1", "q1", "", "direct")
    /\ c.publisher_address = Address("q1", "q1", "ex1", "direct")

\* C6: the legs of a client are set up independently. For the scenario client
\* the publisher leg declares ex1, declares q1 and binds q1 to ex1 with
\* routing key q1, and the subscriber leg declares q1 without any
\* exchange_declare or queue_bind. For every leg that has issued a request,
\* the leg's own address is set, an exchange_declare was issued iff the leg's
\* own exchange is not the default one, and a queue_bind only if it is not.
C6_LegsIndependent ==
    /\ \A i \in DOMAIN legs :
          (SetupQuiescent /\ ScenarioClient(clients[i]) /\ Validated(i, "subscriber")) =>
              /\ legs[i].publisher.issued =
                    << [op |-> "exchange_declare", exchange |-> "ex1",
                        exchange_type |-> "direct"],
                       [op |-> "queue_declare", queue |-> "q1"],
                       [op |-> "queue_bind", queue |-> "q1", exchange |-> "ex1",
                        routing_key |-> "q1"] >>
              /\ [op |-> "queue_declare", queue |-> "q1"]
                    \in Range(legs[i].subscriber.issued)
              /\ Ops(legs[i].subscriber) \cap {"exchange_declare", "queue_bind"} = {}
    /\ \A i \in DOMAIN legs, name \in LegNames :
          LET leg == legs[i][name]
              own == AddressOf(clients[i], name)
          IN  leg.issued # <<>> =>
                  /\ own # NoAddress
                  /\ ("exchange_declare" \in Ops(leg)) <=> (own.exchange # DEFAULT_EXCHANGE)
                  /\ ("queue_bind" \in Ops(leg)) => (own.exchange # DEFAULT_EXCHANGE)
                  /\ (leg.pc = "done" /\ own.exchange # DEFAULT_EXCHANGE)
                        => "queue_bind" \in Ops(leg)

\* the scenario client with both legs finished
C6_ScenarioDone ==
    \E i \in DOMAIN legs :
        /\ ScenarioClient(clients[i])
        /\ legs[i].publisher.pc = "done"
        /\ legs[i].subscriber.pc = "done"

\* C7 as stated: taking both legs of a client together, while one of the
\* client's requests is unconfirmed no request of a later step has been
\* issued for that client.
C7_ClientSequential ==
    \A i \in DOMAIN legs, waiting \in LegNames, other \in LegNames :
        legs[i][waiting].pc \in PendingOps =>
            \A k \in DOMAIN legs[i][other].issued :
                Rank(legs[i][other].issued[k].op) <= Rank(legs[i][waiting].pc)

\* C7 amended: within one address leg the requests are issued in the order
\* exchange_declare, queue_declare, queue_bind, basic_qos, basic_consume, and
\* each is issued only after every earlier request of that leg was confirmed.
C7_LegSequential ==
    \A i \in DOMAIN legs, name \in LegNames :
        LET leg == legs[i][name]
        IN  /\ \A k, l \in DOMAIN leg.issued :
                  k < l => Rank(leg.issued[k].op) < Rank(leg.issued[l].op)
            /\ Len(leg.issued) <= leg.confirmed + 1
            /\ leg.pc \in PendingOps =>
                  /\ leg.issued # <<>>
                  /\ leg.issued[Len(leg.issued)].op = leg.pc
                  /\ Len(leg.issued) = leg.confirmed + 1

\* a subscriber leg that went through all five steps
C7_FullChainDone ==
    \E i \in DOMAIN legs :
        /\ legs[i].subscriber.pc = "done"
        /\ Len(legs[i].subscriber.issued) = 5
        /\ legs[i].subscriber.confirmed = 4

----------------------------------------------------------------------------
(* Messages *)

\* C8: every delivery is acknowledged, and the acknowledgment of a message
\* precedes its dispatch, its handler call and its error handling.
C8_AckBeforeDispatch ==
    /\ \A t \in 1..delivered :
          \E k \in DOMAIN events :
              events[k].op = "basic_ack" /\ events[k].delivery_tag = t
    /\ \A k \in DOMAIN events :
          events[k].op # "basic_ack" =>
              \E j \in 1..(k - 1) :
                  /\ events[j].op = "basic_ack"
                  /\ events[j].delivery_tag = events[k].delivery_tag

\* a handler raised on a delivered message
C8_HandlerRaised ==
    \E k \in DOMAIN events :
        /\ events[k].error = "HandlerError"
        /\ \E j \in DOMAIN events :
              events[j].op = "on_message" /\ events[j].delivery_tag = events[k].delivery_tag

\* C9: publish on a client without a publisher address raises the
\* missing-publisher error and calls basic_publish not at all.
C9_PublishNeedsPublisher ==
    \A k \in DOMAIN last_publish :
        last_publish[k].self.publisher_address = NoAddress =>
            /\ last_publish[k].raised = "MissingPublisherAddressError"
            /\ last_publish[k].written = <<>>

\* publish of a dict on a client with a channel and no publisher address
C9_PublishedWithoutPublisher ==
    \E k \in DOMAIN last_publish :
        /\ last_publish[k].self.publisher_address = NoAddress
        /\ last_publish[k].self.channel # None
        /\ last_publish[k].message.type = "dict"

\* C10: publish on a client with a publisher address and an injected channel
\* calls basic_publish exactly once, with the exchange and the routing key
\* of the publisher address, whether or not it has a subscriber address.
C10_PublishWritesOnce ==
    \A k \in DOMAIN last_publish :
        LET p == last_publish[k]
        IN  (p.self.publisher_address # NoAddress /\ p.self.channel # None) =>
                /\ p.raised = None
                /\ Len(p.written) = 1
                /\ p.written[1].exchange = p.self.publisher_address.exchange
                /\ p.written[1].routing_key = p.self.publisher_address.routing_key

----------------------------------------------------------------------------
(* Address validation *)

\* the queue name is None or the empty string
EmptyQueue(a) == a.queue = None \/ a.queue = ""

\* C11: validate fails whenever the queue name is null or the empty string,
\* and setup then issues no broker request for that address
C11_EmptyQueueRejected ==
    \A k \in DOMAIN checked :
        EmptyQueue(address) => checked[k].raised /\ checked[k].issued = <<>>

\* the routing key is None or the empty string
EmptyRoutingKey(a) == a.routing_key = None \/ a.routing_key = ""

\* C12: with a non-empty queue, validate leaves routingKey equal to
\* queue when the routing key was unset or the empty string, keeps a non-empty
\* routing key, and never modifies queue, exchange or exchange kind
C12_EmptyRoutingKeyFilled ==
    \A k \in DOMAIN checked :
        checked[k].op = "check_attributes" /\ ~EmptyQueue(address) =>
            /\ EmptyRoutingKey(address) =>
                   checked[k].address.routing_key = checked[k].address.queue
            /\ ~EmptyRoutingKey(address) =>
                   checked[k].address.routing_key = address.routing_key
            /\ checked[k].address.queue = address.queue
            /\ checked[k].address.exchange = address.exchange
            /\ checked[k].address.exchange_type = address.exchange_type

----------------------------------------------------------------------------
(* ConnectionManager *)

\* the lines of manager_log written by calls of one class method
CallsOf(method) == {k \in DOMAIN manager_log : manager_log[k].call = method}

\* the call logged at line k invoked its callback at once, with the object
\* it found
CallbackAtOnce(k, callback) ==
    /\ k + 1 \in DOMAIN manager_log
    /\ manager_log[k + 1].call = callback
    /\ manager_log[k + 1].object = manager_log[k].object

\* C13: get_connection on an open connection creates no connection object,
\* returns the existing one and invokes on_open_callback with it, so one
\* connection object exists however often it is called on an open connection
C13_OpenConnectionReused ==
    \A k \in CallsOf("get_connection") :
        manager_log[k].state = "open" =>
            /\ manager_log[k].did = "returned"
            /\ CallbackAtOnce(k, "connection.on_open_callback")

\* C14: get_connection creates a connection and registers on_open_callback
\* on it when there is no connection or the existing one is not open;
\* on_open_callback is never invoked with a connection that is not open, and
\* a closed connection is never handed back
C14_NonOpenConnectionReplaced ==
    /\ \A k \in CallsOf("get_connection") :
          manager_log[k].state # "open" => manager_log[k].did = "created"
    /\ \A k \in CallsOf("connection.on_open_callback") :
          manager_log[k].state = "open"

OpenChannels == {k \in DOMAIN channel_objects : channel_objects[k].state = "open"}

\* C15: get_channel on an open channel invokes on_open_callback with that
\* channel and opens nothing; otherwise it opens exactly one channel on the
\* current connection; at most one open channel exists after any sequence of
\* get_channel calls
C15_OneOpenChannel ==
    /\ \A k \in CallsOf("get_channel") :
          /\ manager_log[k].state = "open" =>
                 /\ manager_log[k].did = "returned"
                 /\ CallbackAtOnce(k, "channel.on_open_callback")
          /\ manager_log[k].state # "open" =>
                 manager_log[k].did \in {"created", "AttributeError",
                                         "ConnectionWrongStateError"}
    /\ Cardinality(OpenChannels) <= 1

\* C16: close_connection does nothing when the connection is closing or
\* closed and otherwise calls close() once; however often it is called, a
\* connection gets at most one close request
C16_CloseOnce ==
    /\ \A k \in CallsOf("close_connection") :
          /\ manager_log[k].state \in {"closing", "closed"} =>
                 manager_log[k].did = "nothing"
          /\ manager_log[k].state \in {"opening", "open"} =>
                 manager_log[k].did = "close"
    /\ \A j \in DOMAIN connection_objects : connection_objects[j].closes <= 1

\* close_connection was called on an open connection and again while that
\* connection was closing
C16_ClosedTwice ==
    \E k, l \in CallsOf("close_connection") :
        /\ k < l
        /\ manager_log[k].object = manager_log[l].object
        /\ manager_log[k].state = "open"
        /\ manager_log[l].state = "closing"

----------------------------------------------------------------------------
(* Channel and connection lifetimes *)

\* s is an initial part of t
IsPrefix(s, t) == Len(s) <= Len(t) /\ \A k \in DOMAIN s : s[k] = t[k]

\* C17: in every state of setup, steady state and teardown an open channel
\* has an open connection; the close sequence closes the channel before the
\* connection, and the loop is stopped only after both closes were issued
C17_ChannelWithinConnection ==
    /\ channel = "open" => connection = "open"
    /\ connection \in {"closing", "closed"} => channel \in {None, "closing", "closed"}
    /\ \A k \in DOMAIN close_log : IsPrefix(close_log[k].ops, CloseOps)
    /\ loop = "stopped" => \E k \in DOMAIN close_log : close_log[k].ops = CloseOps

\* teardown has run the close sequence on an open channel: channel and
\* connection are closing and the loop is stopped
C17_ClosedInOrder ==
    /\ loop = "stopped"
    /\ channel = "closing"
    /\ connection = "closing"
    /\ \E k \in DOMAIN close_log : close_log[k].ops = CloseOps

----------------------------------------------------------------------------
(* Errors of the message handler *)

ErrorTiers == {"on_message_error", "ON_MESSAGE_ERROR", "logging.error"}

RaiseOps == {"on_message raises", "await raises"}

\* the tier the error of a client's handler belongs to
TierOf(c) ==
    IF c.on_message_error # None
    THEN "on_message_error"
    ELSE IF default_on_message_error # None
         THEN "ON_MESSAGE_ERROR"
         ELSE "logging.error"

EventsOf(tag, ops) ==
    {k \in DOMAIN events : events[k].delivery_tag = tag /\ events[k].op \in ops}

\* the delivery was acknowledged and handed to on_message_wrapper, and its
\* task is waiting to run, has called the handler, or could not parse the body
Dispatched(tag) ==
    /\ EventsOf(tag, {"basic_ack"}) # {}
    /\ EventsOf(tag, {"on_message_wrapper"}) # {}
    /\ \/ \E t \in tasks : t.delivery_tag = tag
       \/ EventsOf(tag, {"on_message"}) # {}
       \/ \E k \in EventsOf(tag, ErrorTiers) : events[k].error # "HandlerError"

\* C19: when the handler of a client that registered an error handler raises,
\* that error handler is invoked once, with the metadata the handler got, and
\* the client keeps consuming: every later delivery to it is acknowledged and
\* dispatched to the handler
C19_ConsumesAfterError ==
    \A k \in DOMAIN events :
        (events[k].op \in RaiseOps
         /\ clients[events[k].client].on_message_error # None) =>
            /\ Cardinality(EventsOf(events[k].delivery_tag, {"on_message_error"})) = 1
            /\ \A j \in EventsOf(events[k].delivery_tag, {"on_message_error"}) :
                  /\ events[j].client = events[k].client
                  /\ \E h \in EventsOf(events[k].delivery_tag, {"on_message"}) :
                        h < j /\ events[h].client = events[j].client
            /\ events[k].client \in consumers
            /\ \A j \in DOMAIN events :
                  (j > k /\ events[j].op = "basic_ack"
                   /\ events[j].client = events[k].client) =>
                      Dispatched(events[j].delivery_tag)

\* the handler raised on one delivery and was called again for a later
\* delivery to the same client
C19_HandlerCalledAfterError ==
    \E k, j \in DOMAIN events :
        /\ k < j
        /\ events[k].op \in RaiseOps
        /\ clients[events[k].client].on_message_error # None
        /\ events[j].op = "on_message"
        /\ events[j].client = events[k].client
        /\ events[j].delivery_tag > events[k].delivery_tag

----------------------------------------------------------------------------
(* Payloads that are not JSON *)

\* the body is no JSON document: it is no UTF-8 text, or text json.loads rejects
NotJson(body) == body = InvalidUtf8 \/ json_loads(body).raised

\* C20: a payload that is not valid JSON, delivered to a client that decodes
\* JSON, gives an InvalidFormatError that goes to the error handlers of the
\* client and is not raised out of the dispatch; the handler is not called
\* for that payload
C20_InvalidJsonToErrorHandlers ==
    \A w \in DOMAIN events :
        (/\ events[w].op = "on_message_wrapper"
         /\ clients[events[w].client].parse_json
         /\ clients[events[w].client].on_message # None
         /\ NotJson(events[w].message.value)) =>
            /\ EventsOf(events[w].delivery_tag, {"on_message"}) = {}
            /\ \/ \E t \in tasks : t.delivery_tag = events[w].delivery_tag
               \/ \E k \in EventsOf(events[w].delivery_tag, ErrorTiers) :
                     events[k].error = "InvalidFormatError"

----------------------------------------------------------------------------
(* Clients without a handler *)

\* C21: a message for a client without on_message is acknowledged and then
\* dropped: whatever the payload, no handler and no error handler is called
\* for it and no task is scheduled
C21_DroppedWithoutHandler ==
    \A w \in DOMAIN events :
        (events[w].op = "on_message_wrapper"
         /\ clients[events[w].client].on_message = None) =>
            /\ \E a \in EventsOf(events[w].delivery_tag, {"basic_ack"}) : a < w
            /\ \A k \in DOMAIN events :
                  events[k].delivery_tag = events[w].delivery_tag =>
                      events[k].op \in {"basic_ack", "on_message_wrapper"}
            /\ \A t \in tasks : t.delivery_tag # events[w].delivery_tag

\* a payload that is no JSON document was delivered to a client that decodes
\* JSON and has an error handler but no on_message
C21_InvalidPayloadDropped ==
    \E w \in DOMAIN events :
        /\ events[w].op = "on_message_wrapper"
        /\ clients[events[w].client].on_message = None
        /\ clients[events[w].client].on_message_error # None
        /\ clients[events[w].client].parse_json
        /\ events[w].message.value = "hello"

----------------------------------------------------------------------------
(* Round trip of a payload *)

\* the payloads the broker routed as delivery tag
RoutedAs(tag) ==
    {routed[k].message : k \in {j \in DOMAIN routed : routed[j].delivery_tag = tag}}

\* C22: a payload that is no string and that json.dumps accepts, published
\* and delivered to a client that decodes JSON, reaches the handler as a
\* value equal to the payload
C22_RoundTripEqual ==
    \A k \in DOMAIN events :
        (events[k].op = "on_message" /\ clients[events[k].client].parse_json) =>
            \A m \in RoutedAs(events[k].delivery_tag) :
                m.type # "str" => events[k].message = m

\* reprs of dicts made of the types of JSON itself: every key is a string
StringKeyed == {"{'a': 1}", "{}"}

\* C22 amended: a dict whose keys are strings comes back equal to the
\* payload; a dict with a key that is no string comes back with that key as
\* a string
C22_RoundTripOfJsonTypes ==
    \A k \in DOMAIN events :
        (events[k].op = "on_message" /\ clients[events[k].client].parse_json) =>
            \A m \in RoutedAs(events[k].delivery_tag) :
                /\ (m.type = "dict" /\ m.value \in StringKeyed) => events[k].message = m
                /\ m = DictMessage("{1: 'a'}") =>
                       events[k].message = DictMessage("{'1': 'a'}")

\* the dict {'a': 1} was published, routed and handed to the handler
C22_DictCameBack ==
    \E k \in DOMAIN events :
        /\ events[k].op = "on_message"
        /\ DictMessage("{'a': 1}") \in RoutedAs(events[k].delivery_tag)
        /\ events[k].message = DictMessage("{'a': 1}")

----------------------------------------------------------------------------
(* The list of consumer tags *)

\* the clients that have a subscriber address
Subscribers == {i \in DOMAIN clients : clients[i].subscriber_address # NoAddress}

\* the legs that reached the consume step
Consuming ==
    {x \in (DOMAIN legs) \X LegNames : "basic_consume" \in Ops(legs[x[1]][x[2]])}

\* C23: the list of consumer tags is empty before setup, has one entry for
\* each subscriber address that reached the consume step, none for a client
\* without a subscriber address, and in the RUNNING state as many entries as
\* there are clients with a subscriber address
C23_OneTagPerSubscriber ==
    /\ sh_channel = None => consumer_tags = <<>>
    /\ Len(consumer_tags) = Cardinality(Consuming)
    /\ \A k \in DOMAIN consumer_tags :
          /\ consumer_tags[k] \in Subscribers
          /\ <<consumer_tags[k], "subscriber">> \in Consuming
          /\ \A l \in DOMAIN consumer_tags : consumer_tags[l] = consumer_tags[k] => l = k
    /\ Running => Len(consumer_tags) = Cardinality(Subscribers)

\* RUNNING with a subscriber and a client that only publishes on an exchange
\* of its own: one tag
C23_TagsOfMixedClients ==
    /\ Running
    /\ Len(clients) = 2
    /\ Cardinality(Subscribers) = 1
    /\ Len(consumer_tags) = 1
    /\ \E i \in DOMAIN clients :
          /\ clients[i].subscriber_address = NoAddress
          /\ clients[i].publisher_address # NoAddress

----------------------------------------------------------------------------
(* Failure to open the connection *)

\* the connection could not be opened; in setup and teardown nothing else
\* leaves a connection closed
OpenFailed == connection = "closed"

----------------------------------------------------------------------------
(* The typed getters of AppSettings *)

\* the text written for the option: in the section of the environment if it
\* is there, else in the global section, else None
Configured(cfg) ==
    IF cfg.section /\ cfg.local # None THEN cfg.local ELSE cfg.global

\* C25: a typed getter returns the configured value when there is one, the
\* section of the environment before the global section; with no value it
\* returns the default if one was passed and fails if none was; a default
\* never takes the place of a configured value
C25_GetterPrecedence ==
    \A k \in DOMAIN got :
        /\ Configured(settings) # None =>
               /\ got[k].raised = None
               /\ got[k].value = Converted(settings.getter, Configured(settings))
        /\ (Configured(settings) = None /\ settings.default # None) =>
               /\ got[k].raised = None
               /\ got[k].value = Passed(settings.default)
        /\ (Configured(settings) = None /\ settings.default = None) =>
               got[k].raised \in {"NoOptionError", "RuntimeError"}

\* the option is written in both sections and a default was passed: get_int
\* returned the value of the section of the environment
C25_LocalBeforeGlobalAndDefault ==
    \E k \in DOMAIN got :
        /\ settings.local = "1"
        /\ settings.global = "0"
        /\ settings.default = "9"
        /\ settings.getter = "get_int"
        /\ got[k].value = [type |-> "int", value |-> "1"]

----------------------------------------------------------------------------
(* Every step waits for the confirmation of the step before *)

\* the leg issued a request in this step
IssuedNow(i, name) == legs'[i][name].issued # legs[i][name].issued

\* C26: a leg issues one request at a time, and only in the step in which
\* the broker confirmed the request before it (or, for its first request,
\* confirmed the channel); the channel is requested only in the step in
\* which the broker confirmed the connection
C26_IssuedOnConfirmation ==
    [][/\ \A i \in DOMAIN legs, name \in LegNames :
             IssuedNow(i, name) =>
                 /\ Len(legs'[i][name].issued) = Len(legs[i][name].issued) + 1
                 /\ legs'[i][name].confirmed = Len(legs[i][name].issued)
                 /\ legs[i][name].issued = <<>> =>
                        channel = "opening" /\ channel' = "open"
                 /\ legs[i][name].issued # <<>> =>
                        /\ legs[i][name].pc =
                               legs[i][name].issued[Len(legs[i][name].issued)].op
                        /\ legs'[i][name].confirmed = legs[i][name].confirmed + 1
                        /\ Rank(legs[i][name].pc) <
                               Rank(legs'[i][name].issued[Len(legs'[i][name].issued)].op)
       /\ (channel = None /\ channel' # None) =>
              connection = "opening" /\ connection' = "open"]_vars

\* a publisher leg on an exchange of its own finished: exchange, queue and
\* binding confirmed one after the other
C26_PublisherLegConfirmed ==
    \E i \in DOMAIN legs :
        /\ legs[i].publisher.pc = "done"
        /\ Len(legs[i].publisher.issued) = 3
        /\ legs[i].publisher.confirmed = 3

----------------------------------------------------------------------------
(* QoS and consume belong to subscriber addresses *)

\* the places of the requests of one kind in what a leg issued
IssuedAt(leg, op) == {k \in DOMAIN leg.issued : leg.issued[k].op = op}

\* the broker confirmed the request of that kind, or the leg never issues it
\* because its address is on the default exchange
ConfirmedOrSkipped(leg, a, op) ==
    \/ \E k \in IssuedAt(leg, op) : k <= leg.confirmed
    \/ is_default_exchange(a) /\ op # "queue_declare"

\* C27: a publisher address never causes basic_qos or basic_consume and adds
\* no consumer tag; a subscriber address, once its queue is declared and, off
\* the default exchange, bound, causes exactly one basic_qos, and after its
\* confirmation exactly one basic_consume on its queue
C27_QosAndConsumeForSubscribers ==
    \A i \in DOMAIN legs :
        /\ IssuedAt(legs[i].publisher, "basic_qos") = {}
        /\ IssuedAt(legs[i].publisher, "basic_consume") = {}
        /\ clients[i].subscriber_address = NoAddress =>
               \A k \in DOMAIN consumer_tags : consumer_tags[k] # i
        /\ LET leg == legs[i].subscriber
               a == clients[i].subscriber_address
           IN  /\ Cardinality(IssuedAt(leg, "basic_qos")) <= 1
               /\ Cardinality(IssuedAt(leg, "basic_consume")) <= 1
               /\ \A k \in IssuedAt(leg, "basic_consume") :
                     /\ leg.issued[k] = BasicConsume(a)
                     /\ k - 1 \in IssuedAt(leg, "basic_qos")
               /\ (/\ leg.issued # <<>>
                   /\ ConfirmedOrSkipped(leg, a, "queue_declare")
                   /\ ConfirmedOrSkipped(leg, a, "queue_bind")) =>
                      Cardinality(IssuedAt(leg, "basic_qos")) = 1
               /\ (\E k \in IssuedAt(leg, "basic_qos") : k <= leg.confirmed) =>
                      Cardinality(IssuedAt(leg, "basic_consume")) = 1

\* a client with both addresses is set up: its subscriber leg issued QoS and
\* consume, its publisher leg declared and bound and then stopped
C27_BothLegsSetUp ==
    \E i \in DOMAIN legs :
        /\ clients[i].publisher_address # NoAddress
        /\ legs[i].publisher.pc = "done"
        /\ legs[i].publisher.confirmed >= 1
        /\ legs[i].subscriber.pc = "done"
        /\ IssuedAt(legs[i].subscriber, "basic_consume") # {}
        /\ i \in Range(consumer_tags)

----------------------------------------------------------------------------
(* Setup ends in RUNNING when the broker answers *)

\* RUNNING with the whole topology: every client holds the channel, every
\* subscriber address has its consumer and its tag, every address off the
\* default exchange is declared and bound, and nothing is outstanding
WholeTopology ==
    /\ Running
    /\ channel = "open"
    /\ \A i \in DOMAIN clients : clients[i].channel = "channel"
    /\ \A i \in Subscribers :
          /\ i \in Range(consumer_tags)
          /\ i \in consumers
          /\ <<i, "subscriber">> \in Consuming
    /\ \A i \in DOMAIN legs, name \in LegNames :
          /\ NonDefault(i, name) => DeclaredAndBound(i, name)
          /\ legs[i][name].pc = "done" =>
                 legs[i][name].confirmed >= Len(legs[i][name].issued) - 1

\* check_attributes raises for none of the registered addresses
EveryQueueSet ==
    \A i \in DOMAIN clients, name \in LegNames : ~MissingQueue(AddressOf(clients[i], name))

\* C28 as stated: once start has been called, with a broker that answers
\* every request, setup eventually reaches RUNNING with the whole topology,
\* whatever clients are registered
C28_SetupReachesRunning == (loop = "running") ~> WholeTopology

\* C28 amended: the same when every registered address has its queue set
C28_ValidatedSetupReachesRunning ==
    (loop = "running" /\ EveryQueueSet) ~> WholeTopology

\* RUNNING with two clients, one of them subscribing off the default exchange
C28_TwoClientsRunning ==
    /\ WholeTopology
    /\ Len(clients) = 2
    /\ \E i \in Subscribers : NonDefault(i, "subscriber")
    /\ Len(consumer_tags) >= 1

----------------------------------------------------------------------------
(* Repeated stop calls *)

\* C29: over any sequence of stop calls and cancel completions the close
\* sequence runs at most once, only after a stop call, only when the
\* completion of every recorded tag has been observed (each tag once, none
\* outstanding), and it runs whole; the loop is stopped exactly by it. A
\* second stop call, before or after the join fired, does not run it again.
C29_CloseOnceNeverEarly ==
    /\ Len(close_log) <= 1
    /\ loop = "stopped" <=> close_log # <<>>
    /\ \A k \in DOMAIN close_log :
          /\ stop_log # <<>>
          /\ close_log[k].ops = CloseOps
          /\ close_log[k].closed = close_log[k].tags
          /\ close_log[k].tags = Len(consumer_tags)
          /\ Len(cancel_order) = Len(consumer_tags)
          /\ Range(cancel_order) = Range(consumer_tags)
          /\ cancelling = {}
          /\ consumers = {}
    /\ close_log = <<>> =>
          /\ channel \notin {"closing", "closed"}
          /\ connection # "closing"

\* stop was called again after the join of two subscribers had fired: the
\* channel refused the cancel and nothing was closed a second time
C29_StoppedAgainAfterJoin ==
    /\ Len(stop_log) = 2
    /\ Len(consumer_tags) = 2
    /\ Len(close_log) = 1
    /\ "ChannelWrongStateError" \in Range(raised)
    /\ loop = "stopped"

----------------------------------------------------------------------------
(* The outcome of setup and the order of the callbacks *)

\* the requests an address calls for, from the registered client alone
ExpectedRequests(c, name) ==
    LET a == AddressOf(c, name)
        topology == IF a.exchange = DEFAULT_EXCHANGE
                    THEN <<QueueDeclare(a)>>
                    ELSE <<ExchangeDeclare(a), QueueDeclare(a), QueueBind(a)>>
    IN  IF a = NoAddress
        THEN <<>>
        ELSE IF name = "subscriber"
             THEN topology \o <<BasicQos(c), BasicConsume(a)>>
             ELSE topology

\* every request issued on the channel, of whatever leg
IssuedRequests ==
    UNION {Range(legs[i][name].issued) : i \in DOMAIN legs, name \in LegNames}

\* C30: whatever the interleaving of the callbacks of different clients, in
\* the RUNNING state the declared exchanges, declared queues, bindings and
\* consumers are those the registered clients call for: every leg issued the
\* requests of its own address, with the routing key set, and there is one
\* consumer and one tag for each subscribing client.
C30_OutcomeOfClientsOnly ==
    (Running /\ stop_log = <<>>) =>
        /\ \A i \in DOMAIN legs, name \in LegNames :
              /\ legs[i][name].issued = ExpectedRequests(clients[i], name)
              /\ AddressOf(clients[i], name) # NoAddress =>
                     AddressOf(clients[i], name).routing_key # None
        /\ IssuedRequests =
              UNION {Range(ExpectedRequests(clients[i], name)) :
                         i \in DOMAIN clients, name \in LegNames}
        /\ consumers = Subscribers
        /\ Range(consumer_tags) = Subscribers
        /\ Len(consumer_tags) = Cardinality(Subscribers)

\* two subscribing clients whose consumers were attached in the reverse of
\* the order of registration
C30_AttachedInReverse ==
    /\ Running
    /\ stop_log = <<>>
    /\ consumer_tags = <<2, 1>>
    /\ clients[1] # clients[2]

----------------------------------------------------------------------------
(* The prefetch count a consumer is attached under *)

\* C31: every consumer is attached under the prefetch count of its own
\* client: when its basic_consume is sent, the last basic_qos sent on the
\* shared channel carries that client's prefetch_count.
C31_OwnPrefetch ==
    \A k \in DOMAIN consumer_prefetch :
        consumer_prefetch[k] = clients[consumer_tags[k]].prefetch_count

----------------------------------------------------------------------------
(* Handlers start in delivery order *)

\* the queue client i consumes from
QueueOf(i) == clients[i].subscriber_address.queue

\* the places in events where a handler was called for a delivery of queue q
HandlerCalls(q) ==
    {k \in DOMAIN events : events[k].op = "on_message" /\ QueueOf(events[k].client) = q}

\* C32: the handler calls for the deliveries of one queue are in the order
\* of delivery: a call for a later delivery never precedes the call for an
\* earlier one, and when a handler is called for a delivery no task of an
\* earlier delivery of that queue is still waiting to start. Only the order
\* in which asynchronous handlers end is free.
C32_HandlersStartInDeliveryOrder ==
    \A i \in Subscribers :
        /\ \A j, k \in HandlerCalls(QueueOf(i)) :
              events[j].delivery_tag < events[k].delivery_tag => j < k
        /\ \A k \in HandlerCalls(QueueOf(i)), t \in tasks :
              (QueueOf(t.client) = QueueOf(i) /\ t.state = "scheduled") =>
                  events[k].delivery_tag < t.delivery_tag

\* a handler was called for two deliveries of one queue, and its call for
\* the first one is still awaited after the second one ended
C32_SecondEndedFirst ==
    \E t \in tasks :
        /\ t.state = "awaiting"
        /\ \E k \in HandlerCalls(QueueOf(t.client)) :
              /\ events[k].delivery_tag > t.delivery_tag
              /\ \A u \in tasks : u.delivery_tag # events[k].delivery_tag

----------------------------------------------------------------------------
(* The channel the clients share *)

\* the loop of _setup_clients gets as far as client i: check_attributes
\* raised for no address of a client registered before it
Reached(i) ==
    \A j \in 1..(i - 1), n \in LegNames : ~MissingQueue(AddressOf(clients[j], n))

\* C33 as stated: once the channel-open callback has run, every registered
\* client holds the channel of the orchestrator.
C33_EveryClientHoldsChannel ==
    sh_channel # None => \A i \in DOMAIN clients : clients[i].channel = sh_channel

\* C33 amended: once the channel-open callback has run, every client the
\* loop of _setup_clients got to holds the channel of the orchestrator and
\* the others hold none; a client gets the channel in the step of that
\* callback only, and a channel a client holds is never replaced or removed,
\* during setup or teardown.
C33_ReachedClientsHoldChannel ==
    [][/\ sh_channel' # None =>
             \A i \in DOMAIN clients' :
                 clients'[i].channel = IF Reached(i) THEN sh_channel' ELSE None
       /\ \A i \in DOMAIN clients :
             /\ clients[i].channel # None => clients'[i].channel = clients[i].channel
             /\ clients'[i].channel # clients[i].channel =>
                    sh_channel = None /\ sh_channel' # None]_vars

\* two clients hold the channel, and still do after the close sequence ran
C33_SharedUntilClosed ==
    /\ Len(clients) = 2
    /\ \A i \in DOMAIN clients : clients[i].channel = sh_channel
    /\ sh_channel # None
    /\ close_log # <<>>

----------------------------------------------------------------------------
(* Stop while setup is in progress *)

\* stop was called once, while setup was in progress with a consumer already
\* attached, and the broker has answered every request since
StoppedDuringSetupAnswered ==
    /\ Len(stop_log) = 1
    /\ ~stop_log[1].running
    /\ cancel_order # <<>>
    /\ cancelling = {}
    /\ \A i \in DOMAIN legs, name \in LegNames : legs[i][name].pc \notin PendingOps

\* C34: when stop is called while setup is in progress and the broker has
\* answered every request, the close sequence has run exactly once and no
\* consumer is left attached: every recorded tag was part of the join.
C34_StopDuringSetupCloses ==
    StoppedDuringSetupAnswered =>
        /\ Len(close_log) = 1
        /\ consumers = {}
        /\ Range(consumer_tags) = Range(cancel_order)

----------------------------------------------------------------------------
(* The lifecycle wrapper *)

\* how many times start called the hook
TimesCalled(a, hook) == Cardinality({k \in DOMAIN a.calls : a.calls[k] = hook})

\* C35: on every path of start the tear_down hook is executed exactly once;
\* run is executed only if setup returned; when setup does not return, run
\* is not executed and the exception of setup leaves start.
C35_TearDownOnce ==
    \A k \in DOMAIN app_runs :
        LET a == app_runs[k]
        IN  /\ TimesCalled(a, "tear_down") = 1
            /\ TimesCalled(a, "run") <= 1
            /\ TimesCalled(a, "run") = 1 => a.setup = "returns"
            /\ a.setup # "returns" =>
                   /\ TimesCalled(a, "run") = 0
                   /\ a.raised = Thrown("setup", a.setup)

----------------------------------------------------------------------------
(* The registry of redis subscriptions *)

\* C36: is_subscribed_to(channel) called right after unsubscribe(channel)
\* is false, and is_subscribed_to called right after clean_up is false for
\* every channel.
C36_UnsubscribeRemoves ==
    \A k \in DOMAIN redis_log :
        (k > 1 /\ redis_log[k].call = "is_subscribed_to") =>
            /\ (/\ redis_log[k - 1].call = "unsubscribe"
                /\ redis_log[k - 1].channel = redis_log[k].channel) =>
                   redis_log[k].result = "False"
            /\ redis_log[k - 1].call = "clean_up" => redis_log[k].result = "False"

----------------------------------------------------------------------------
(* TimeSeries *)

\* how many times point q is in the list
Count(ps, q) == Cardinality({k \in DOMAIN ps : ps[k] = q})

\* the earliest timestamp in the list
Earliest(ps) == CHOOSE ts \in Timestamps :
    /\ \E k \in DOMAIN ps : ps[k].timestamp = ts
    /\ \A k \in DOMAIN ps : ps[k].timestamp >= ts

Latest(ps) == CHOOSE ts \in Timestamps :
    /\ \E k \in DOMAIN ps : ps[k].timestamp = ts
    /\ \A k \in DOMAIN ps : ps[k].timestamp <= ts

\* C37: a series with max_length L never holds more than L points, and an
\* insert into a full series leaves the points it held but one with the
\* earliest timestamp, and the new point.
C37_NeverLongerThanMaxLength ==
    /\ max_length # 0 => Len(points) <= max_length
    /\ \A k \in DOMAIN last_op :
          (last_op[k].op = "insert" /\ is_full(max_length, last_op[k].before)) =>
              \E d \in Range(last_op[k].before) :
                  /\ d.timestamp = Earliest(last_op[k].before)
                  /\ \A q \in Points :
                        Count(points, q) + (IF q = d THEN 1 ELSE 0)
                            = Count(last_op[k].before, q)
                                  + (IF <<q>> = last_op[k].argument THEN 1 ELSE 0)

\* a point was inserted in a full series of two points with different
\* timestamps, and the new point is not the latest
C37_InsertedInFullSeries ==
    /\ max_length = 2
    /\ last_op # <<>>
    /\ last_op[1].op = "insert"
    /\ Len(last_op[1].before) = 2
    /\ last_op[1].before[1].timestamp < last_op[1].before[2].timestamp
    /\ last_op[1].argument[1].timestamp < last_op[1].before[2].timestamp

\* C38: after every operation the points are in the order of their
\* timestamps, so that get_first returns a point with the earliest and
\* get_last one with the latest timestamp.
C38_OrderedByTimestamp ==
    /\ \A j, k \in DOMAIN points : j < k => points[j].timestamp <= points[k].timestamp
    /\ points # <<>> =>
          /\ get_first(points).timestamp = Earliest(points)
          /\ get_last(points).timestamp = Latest(points)

\* a point earlier than the two points held was inserted and is now the
\* first one
C38_InsertedBeforeAll ==
    /\ last_op # <<>>
    /\ last_op[1].op = "insert"
    /\ Len(last_op[1].before) = 2
    /\ last_op[1].argument[1].timestamp < last_op[1].before[1].timestamp
    /\ Len(points) = 3
    /\ get_first(points) = last_op[1].argument[1]

====
